---- MODULE Spec2Model ----
(***************************************************************************)
(* A model of the MiniJava compiler pipeline: scanner tokens, LL(1)       *)
(* recursive-descent parser, semantic analyzer (declaration collection,   *)
(* validation, inheritance resolution), MIPS code generator and two-pass  *)
(* assembler.                                                              *)
(*                                                                         *)
(* Python values are modelled as follows.  A dict node of the syntax tree  *)
(* is a record with the same keys; a list is a sequence; a token tuple     *)
(* (type, lexeme) is a 2-tuple.  None is the string None where the code    *)
(* holds a name, NoneNode where it holds a node and NoneToken where it     *)
(* holds a token.  A raised exception is a result record whose exc field   *)
(* names the exception class; exc = "none" is a normal return.             *)
(***************************************************************************)
EXTENDS Integers, Sequences, FiniteSets, TLC

None == "<None>"
NoneNode == [type |-> "NoneType"]
NoneToken == <<"<None>", "<None>">>

\* A normal return of a parser routine: the value built and the new current_index.
Ok(node, idx) == [exc |-> "none", msg |-> <<>>, node |-> node, idx |-> idx]
\* A raised exception: its class, its message parts, and current_index when raised.
Fail(exc, msg, idx) == [exc |-> exc, msg |-> msg, node |-> NoneNode, idx |-> idx]

\* A normal return of any other routine and a raised exception.
Ret(v) == [exc |-> "none", msg |-> <<>>, val |-> v]
Raise(exc, msg) == [exc |-> exc, msg |-> msg, val |-> None]

\* With([name \in {value} |-> body]) is body with name bound to value.
With(f) == f[CHOOSE x \in DOMAIN f : TRUE]

(***************************************************************************)
(* Strings.  Source text and assembly lines are strings; a character is a  *)
(* string of length 1.                                                     *)
(***************************************************************************)
CharAt(s, i) == SubSeq(s, i, i)
Letters == {"a", "b", "c", "d", "e", "f", "g", "h", "i", "j", "k", "l", "m",
            "n", "o", "p", "q", "r", "s", "t", "u", "v", "w", "x", "y", "z",
            "A", "B", "C", "D", "E", "F", "G", "H", "I", "J", "K", "L", "M",
            "N", "O", "P", "Q", "R", "S", "T", "U", "V", "W", "X", "Y", "Z"}
DigitChars == {"0", "1", "2", "3", "4", "5", "6", "7", "8", "9"}
WordChars == Letters \cup DigitChars \cup {"_"}
WhitespaceChars == {" ", "\n", "\t", "\r", "\f"}
StartsWithAt(s, i, prefix) ==
    i + Len(prefix) - 1 <= Len(s) /\ SubSeq(s, i, i + Len(prefix) - 1) = prefix
SetMin(S) == CHOOSE m \in S : \A x \in S : m <= x
\* The first position >= i of s whose character is not in chars (Len(s)+1 if none).
SkipWhile(s, i, chars) ==
    SetMin({j \in i..Len(s) : CharAt(s, j) \notin chars} \cup {Len(s) + 1})
\* The first position >= i of s where sub starts (0 if none).
Find(s, i, sub) ==
    LET hits == {j \in i..Len(s) : StartsWithAt(s, j, sub)} IN
    IF hits = {} THEN 0 ELSE SetMin(hits)
\* The regex assertion \b between positions i-1 and i of s.
WordBoundary(s, i) ==
    LET before == i > 1 /\ CharAt(s, i - 1) \in WordChars
        after == i <= Len(s) /\ CharAt(s, i) \in WordChars IN
    before # after

(***************************************************************************)
(* Scanner (minijava_scanner.py)                                           *)
(***************************************************************************)
ReservedWords == <<"boolean", "class", "extends", "public", "static", "void", "main",
                   "String", "return", "int", "if", "else", "while",
                   "System.out.println", "length", "true", "false", "this", "new", "null">>
Operators == <<"<=", ">=", "==", "!=", "<", ">", "+", "-", "*", "&&", "!", "=">>
PunctuationChars == {"(", ")", "[", "]", "{", "}", ",", ".", ";"}

\* Each Match operator returns the position after the match of its pattern
\* at position pos of code, or 0 when the pattern does not match there.
MatchWhitespace(code, pos) ==
    LET e == SkipWhile(code, pos, WhitespaceChars) IN IF e > pos THEN e ELSE 0

\* The end of the line that contains position i ('.' does not match "\n").
EndOfLine(s, i) == LET nl == Find(s, i, "\n") IN IF nl = 0 THEN Len(s) + 1 ELSE nl

MatchComment(code, pos) ==
    IF StartsWithAt(code, pos, "//") THEN EndOfLine(code, pos + 2)
    ELSE IF StartsWithAt(code, pos, "/*")
    THEN LET close == Find(code, pos + 2, "*/") IN
         IF close = 0 THEN 0 ELSE close + 2
    ELSE 0

\* The alternatives without the closing \b: the first reserved word, from index k,
\* that the text at pos starts with.
MatchReservedFrom_prefix(code, pos, k) ==
    LET starting == {j \in k..Len(ReservedWords) : StartsWithAt(code, pos, ReservedWords[j])} IN
    IF starting = {} THEN 0 ELSE pos + Len(ReservedWords[SetMin(starting)])

\* \b(w1|w2|...)\b : the alternatives are tried in order from index k.
RECURSIVE MatchReservedFrom(_, _, _)
MatchReservedFrom(code, pos, k) ==
    IF k > Len(ReservedWords) THEN 0
    ELSE LET w == ReservedWords[k] IN
         IF StartsWithAt(code, pos, w) /\ WordBoundary(code, pos + Len(w))
         THEN pos + Len(w)
         ELSE MatchReservedFrom(code, pos, k + 1)

MatchReserved(code, pos) ==
    IF WordBoundary(code, pos) THEN MatchReservedFrom(code, pos, 1) ELSE 0

MatchIdentifier(code, pos) ==
    IF WordBoundary(code, pos) /\ pos <= Len(code) /\ CharAt(code, pos) \in Letters
    THEN SkipWhile(code, pos + 1, WordChars)
    ELSE 0

\* \b\d+\b : \d+ may give back digits, but a shorter run of digits is followed
\* by a digit, so only the maximal run can end at a word boundary.
MatchNumber(code, pos) ==
    IF WordBoundary(code, pos) /\ pos <= Len(code) /\ CharAt(code, pos) \in DigitChars
    THEN LET e == SkipWhile(code, pos + 1, DigitChars) IN
         IF WordBoundary(code, e) THEN e ELSE 0
    ELSE 0

RECURSIVE MatchOperatorFrom(_, _, _)
MatchOperatorFrom(code, pos, k) ==
    IF k > Len(Operators) THEN 0
    ELSE IF StartsWithAt(code, pos, Operators[k]) THEN pos + Len(Operators[k])
    ELSE MatchOperatorFrom(code, pos, k + 1)

MatchOperator(code, pos) == MatchOperatorFrom(code, pos, 1)

MatchPunctuation(code, pos) ==
    IF pos <= Len(code) /\ CharAt(code, pos) \in PunctuationChars THEN pos + 1 ELSE 0

token_patterns == <<"WHITESPACE", "COMMENT", "RESERVED", "IDENTIFIER", "NUMBER",
                    "OPERATOR", "PUNCTUATION">>

MatchPattern(token_name, code, pos) ==
    CASE token_name = "WHITESPACE" -> MatchWhitespace(code, pos)
      [] token_name = "COMMENT" -> MatchComment(code, pos)
      [] token_name = "RESERVED" -> MatchReserved(code, pos)
      [] token_name = "IDENTIFIER" -> MatchIdentifier(code, pos)
      [] token_name = "NUMBER" -> MatchNumber(code, pos)
      [] token_name = "OPERATOR" -> MatchOperator(code, pos)
      [] token_name = "PUNCTUATION" -> MatchPunctuation(code, pos)

\* The first pattern, from index k, that matches at pos: <<name, end>>, or <<None, 0>>.
RECURSIVE FirstMatch(_, _, _)
FirstMatch(code, pos, k) ==
    IF k > Len(token_patterns) THEN <<None, 0>>
    ELSE LET e == MatchPattern(token_patterns[k], code, pos) IN
         IF e # 0 THEN <<token_patterns[k], e>> ELSE FirstMatch(code, pos, k + 1)

\* The while loop of tokenize from position pos (1-based) with the tokens so far.
RECURSIVE tokenize_loop(_, _, _)
tokenize_loop(code, pos, toks) ==
    IF pos > Len(code) THEN Ret(toks)
    ELSE LET match == FirstMatch(code, pos, 1) IN
         IF match[1] = None
         THEN Raise("SyntaxError", <<"Unexpected character:", CharAt(code, pos)>>)
         ELSE tokenize_loop(code, match[2],
                  IF match[1] \notin {"WHITESPACE", "COMMENT"}
                  THEN Append(toks, <<match[1], SubSeq(code, pos, match[2] - 1)>>)
                  ELSE toks)

tokenize(code) == tokenize_loop(code, 1, <<>>)

(***************************************************************************)
(* Parser (minijava_parser.py)                                             *)
(***************************************************************************)
current_token(tokens, current_index) ==
    IF current_index < Len(tokens) THEN tokens[current_index + 1] ELSE NoneToken

consume(tokens, current_index, expected_type, expected_value) ==
    LET token == current_token(tokens, current_index) IN
    IF token = NoneToken
    THEN Fail("ParserError", <<"Unexpected end of input">>, current_index)
    ELSE IF expected_type # None /\ token[1] # expected_type
    THEN Fail("ParserError", <<"Expected token type", expected_type>>, current_index)
    ELSE IF expected_value # None /\ token[2] # expected_value
    THEN Fail("ParserError", <<"Expected token value", expected_value>>, current_index)
    ELSE Ok(token, current_index + 1)

\* A run of consecutive consume() calls, which stops at the first one that raises;
\* returns the consumed tokens.
consume_all(tokens, current_index, expected) ==
    LET results == [j \in 1..Len(expected) |->
                       consume(tokens, current_index + j - 1, expected[j][1], expected[j][2])]
        raising == {j \in 1..Len(expected) : results[j].exc # "none"} IN
    IF raising = {}
    THEN Ok([j \in 1..Len(expected) |-> results[j].node], current_index + Len(expected))
    ELSE results[SetMin(raising)]

R(v) == <<"RESERVED", v>>
P(v) == <<"PUNCTUATION", v>>
O(v) == <<"OPERATOR", v>>
I(v) == <<"IDENTIFIER", v>>
N(v) == <<"NUMBER", v>>
AnyIdentifier == <<"IDENTIFIER", None>>

parse_type(tokens, current_index) ==
    (CHOOSE result \in {(
    IF r.exc # "none" THEN r
    ELSE LET token == r.node
             nxt == current_token(tokens, r.idx) IN
         IF token[2] = "int" /\ nxt # NoneToken /\ nxt[2] = "["
         THEN (CHOOSE result \in {(
              IF b.exc # "none" THEN b ELSE Ok("int[]", b.idx)) : b \in {consume_all(tokens, r.idx, <<P("["), P("]")>>)}} : TRUE)
         ELSE IF token[2] \in {"int", "boolean"} THEN Ok(token[2], r.idx)
         ELSE IF token[1] = "IDENTIFIER" THEN Ok(token[2], r.idx)
         ELSE Fail("ParserError", <<"Unexpected token in type">>, r.idx)) : r \in {consume(tokens, current_index, "RESERVED", None)}} : TRUE)

parse_variable(tokens, current_index) ==
    (CHOOSE result \in {(
    IF t.exc # "none" THEN t
    ELSE (CHOOSE result \in {(
         IF c.exc # "none" THEN c
         ELSE Ok([type |-> "Variable", var_type |-> t.node, name |-> c.node[1][2]], c.idx)) : c \in {consume_all(tokens, t.idx, <<AnyIdentifier, P(";")>>)}} : TRUE)) : t \in {parse_type(tokens, current_index)}} : TRUE)

parse_param(tokens, current_index) ==
    (CHOOSE result \in {(
    IF t.exc # "none" THEN t
    ELSE (CHOOSE result \in {(
         IF c.exc # "none" THEN c
         ELSE Ok([type |-> "Parameter", param_type |-> t.node, name |-> c.node[2]], c.idx)) : c \in {consume(tokens, t.idx, "IDENTIFIER", None)}} : TRUE)) : t \in {parse_type(tokens, current_index)}} : TRUE)

RECURSIVE parse(_, _, _, _)

parse_params_loop(tokens, current_index, parameters) ==
    LET tok == current_token(tokens, current_index) IN
    IF tok # NoneToken /\ tok[2] = ","
    THEN (CHOOSE result \in {(
         IF c.exc # "none" THEN c
         ELSE (CHOOSE result \in {(
              IF p.exc # "none" THEN p
              ELSE parse("parse_params_loop", tokens, p.idx, Append(parameters, p.node))) : p \in {parse_param(tokens, c.idx)}} : TRUE)) : c \in {consume(tokens, current_index, "PUNCTUATION", ",")}} : TRUE)
    ELSE Ok(parameters, current_index)

parse_params(tokens, current_index) ==
    (CHOOSE result \in {(
    IF p.exc # "none" THEN p
    ELSE parse("parse_params_loop", tokens, p.idx, <<p.node>>)) : p \in {parse_param(tokens, current_index)}} : TRUE)

\* The routines of the expression and command grammar call one another through
\* parse(routine, tokens, current_index, argument), defined after them.

parse_expression_loop(tokens, current_index, left) ==
    LET tok == current_token(tokens, current_index) IN
    IF tok # NoneToken /\ tok[2] = "&&"
    THEN (LET c == consume(tokens, current_index, "OPERATOR", "&&") IN
         IF c.exc # "none" THEN c
         ELSE (CHOOSE result \in {(
              IF right.exc # "none" THEN right
              ELSE parse("parse_expression_loop", tokens, right.idx,
                       [type |-> "LogicalAnd", left |-> left, right |-> right.node])) : right \in {parse("parse_rexp", tokens, c.idx, NoneNode)}} : TRUE))
    ELSE Ok(left, current_index)

parse_expression(tokens, current_index) ==
    (CHOOSE result \in {(
    IF left.exc # "none" THEN left
    ELSE parse("parse_expression_loop", tokens, left.idx, left.node)) : left \in {parse("parse_rexp", tokens, current_index, NoneNode)}} : TRUE)

RelationalTokens == {"<", "==", "!="}

parse_rexp_loop(tokens, current_index, left) ==
    LET tok == current_token(tokens, current_index) IN
    IF tok # NoneToken /\ tok[2] \in RelationalTokens
    THEN (LET c == consume(tokens, current_index, "OPERATOR", None) IN
         IF c.exc # "none" THEN c
         ELSE (CHOOSE result \in {(
              IF right.exc # "none" THEN right
              ELSE parse("parse_rexp_loop", tokens, right.idx,
                       [type |-> "RelationalOp", operator |-> c.node[2],
                        left |-> left, right |-> right.node])) : right \in {parse("parse_aexp", tokens, c.idx, NoneNode)}} : TRUE))
    ELSE Ok(left, current_index)

parse_rexp(tokens, current_index) ==
    (CHOOSE result \in {(
    IF left.exc # "none" THEN left
    ELSE parse("parse_rexp_loop", tokens, left.idx, left.node)) : left \in {parse("parse_aexp", tokens, current_index, NoneNode)}} : TRUE)

AdditiveTokens == {"+", "-"}

\* An additive loop that reads its right operand as a whole additive expression.
parse_aexp_loop_recursing(tokens, current_index, left) ==
    LET tok == current_token(tokens, current_index) IN
    IF tok # NoneToken /\ tok[2] \in AdditiveTokens
    THEN (LET c == consume(tokens, current_index, "OPERATOR", None) IN
         IF c.exc # "none" THEN c
         ELSE (CHOOSE result \in {(
              IF right.exc # "none" THEN right
              ELSE Ok([type |-> "ArithmeticOp", operator |-> c.node[2],
                       left |-> left, right |-> right.node], right.idx)) : right \in {parse("parse_aexp", tokens, c.idx, NoneNode)}} : TRUE))
    ELSE Ok(left, current_index)

parse_aexp_loop(tokens, current_index, left) ==
    LET tok == current_token(tokens, current_index) IN
    IF tok # NoneToken /\ tok[2] \in AdditiveTokens
    THEN (LET c == consume(tokens, current_index, "OPERATOR", None) IN
         IF c.exc # "none" THEN c
         ELSE (CHOOSE result \in {(
              IF right.exc # "none" THEN right
              ELSE parse("parse_aexp_loop", tokens, right.idx,
                       [type |-> "ArithmeticOp", operator |-> c.node[2],
                        left |-> left, right |-> right.node])) : right \in {parse("parse_mexp", tokens, c.idx, NoneNode)}} : TRUE))
    ELSE Ok(left, current_index)

parse_aexp(tokens, current_index) ==
    (CHOOSE result \in {(
    IF left.exc # "none" THEN left
    ELSE parse("parse_aexp_loop", tokens, left.idx, left.node)) : left \in {parse("parse_mexp", tokens, current_index, NoneNode)}} : TRUE)

parse_mexp_loop(tokens, current_index, left) ==
    LET tok == current_token(tokens, current_index) IN
    IF tok # NoneToken /\ tok[2] = "*"
    THEN (LET c == consume(tokens, current_index, "OPERATOR", "*") IN
         IF c.exc # "none" THEN c
         ELSE (CHOOSE result \in {(
              IF right.exc # "none" THEN right
              ELSE parse("parse_mexp_loop", tokens, right.idx,
                       [type |-> "ArithmeticOp", operator |-> "*",
                        left |-> left, right |-> right.node])) : right \in {parse("parse_sexp", tokens, c.idx, NoneNode)}} : TRUE))
    ELSE Ok(left, current_index)

parse_mexp(tokens, current_index) ==
    (CHOOSE result \in {(
    IF left.exc # "none" THEN left
    ELSE parse("parse_mexp_loop", tokens, left.idx, left.node)) : left \in {parse("parse_sexp", tokens, current_index, NoneNode)}} : TRUE)

\* int(token[1]) of a NUMBER lexeme: a run of decimal digits.
DigitValue(c) == CHOOSE v \in 0..9 : ToString(v) = c
int(lexeme) ==
    LET value[i \in 0..Len(lexeme)] ==
            IF i = 0 THEN 0 ELSE 10 * value[i - 1] + DigitValue(CharAt(lexeme, i)) IN
    value[Len(lexeme)]

parse_sexp(tokens, current_index) ==
    LET token == current_token(tokens, current_index) IN
    IF token = NoneToken
    THEN Fail("TypeError", <<"'NoneType' object is not subscriptable">>, current_index)
    ELSE IF token[2] \in {"true", "false"}
    THEN (LET c == consume(tokens, current_index, "RESERVED", None) IN
         IF c.exc # "none" THEN c
         ELSE Ok([type |-> "BooleanLiteral", value |-> (token[2] = "true")], c.idx))
    ELSE IF token[1] = "NUMBER"
    THEN (LET c == consume(tokens, current_index, "NUMBER", None) IN
         IF c.exc # "none" THEN c
         ELSE Ok([type |-> "Number", value |-> int(token[2])], c.idx))
    ELSE IF token[2] = "null"
    THEN (LET c == consume(tokens, current_index, "RESERVED", "null") IN
         IF c.exc # "none" THEN c
         ELSE Ok([type |-> "NullLiteral"], c.idx))
    ELSE IF token[2] = "new" /\ current_index + 1 >= Len(tokens)
    THEN Fail("IndexError", <<"list index out of range">>, current_index)
    ELSE IF token[2] = "new" /\ tokens[current_index + 2][2] = "int"
    THEN (CHOOSE result \in {(
         IF c.exc # "none" THEN c
         ELSE (CHOOSE result \in {(
              IF size.exc # "none" THEN size
              ELSE (CHOOSE result \in {(
                   IF d.exc # "none" THEN d
                   ELSE Ok([type |-> "NewArray", element_type |-> "int",
                            size |-> size.node], d.idx)) : d \in {consume(tokens, size.idx, "PUNCTUATION", "]")}} : TRUE)) : size \in {parse("parse_expression", tokens, c.idx, NoneNode)}} : TRUE)) : c \in {consume_all(tokens, current_index, <<R("new"), R("int"), P("[")>>)}} : TRUE)
    ELSE IF token[2] = "("
    THEN (CHOOSE result \in {(
         IF c.exc # "none" THEN c
         ELSE (CHOOSE result \in {(
              IF expression.exc # "none" THEN expression
              ELSE (CHOOSE result \in {(
                   IF d.exc # "none" THEN d
                   ELSE Ok(expression.node, d.idx)) : d \in {consume(tokens, expression.idx, "PUNCTUATION", ")")}} : TRUE)) : expression \in {parse("parse_expression", tokens, c.idx, NoneNode)}} : TRUE)) : c \in {consume(tokens, current_index, "PUNCTUATION", "(")}} : TRUE)
    ELSE parse("parse_pexp", tokens, current_index, NoneNode)

parse_pexp_loop(tokens, current_index, left) ==
    LET tok == current_token(tokens, current_index) IN
    IF tok # NoneToken /\ tok[2] \in {".", "["}
    THEN IF tok[2] = "."
         THEN (CHOOSE result \in {(
              IF c.exc # "none" THEN c
              ELSE LET method_or_field == c.node[2][2]
                       t2 == current_token(tokens, c.idx) IN
                   IF t2 # NoneToken /\ t2[2] = "("
                   THEN (LET d == consume(tokens, c.idx, "PUNCTUATION", "(") IN
                        IF d.exc # "none" THEN d
                        ELSE IF current_token(tokens, d.idx) = NoneToken
                        THEN Fail("TypeError",
                                  <<"'NoneType' object is not subscriptable">>, d.idx)
                        ELSE (CHOOSE result \in {(
                             IF arguments.exc # "none" THEN arguments
                             ELSE (CHOOSE result \in {(
                                  IF e.exc # "none" THEN e
                                  ELSE parse("parse_pexp_loop", tokens, e.idx,
                                           [type |-> "MethodCall", target |-> left,
                                            method_name |-> method_or_field,
                                            arguments |-> arguments.node])) : e \in {consume(tokens, arguments.idx, "PUNCTUATION", ")")}} : TRUE)) : arguments \in {
                                     IF current_token(tokens, d.idx)[2] # ")"
                                     THEN parse("parse_exps", tokens, d.idx, NoneNode)
                                     ELSE Ok(<<>>, d.idx)}} : TRUE))
                   ELSE parse("parse_pexp_loop", tokens, c.idx,
                            [type |-> "FieldAccess", target |-> left,
                             field_name |-> method_or_field])) : c \in {consume_all(tokens, current_index, <<P("."), AnyIdentifier>>)}} : TRUE)
         ELSE (CHOOSE result \in {(
              IF c.exc # "none" THEN c
              ELSE (CHOOSE result \in {(
                   IF index.exc # "none" THEN index
                   ELSE (LET d == consume(tokens, index.idx, "PUNCTUATION", "]") IN
                        IF d.exc # "none" THEN d
                        ELSE parse("parse_pexp_loop", tokens, d.idx,
                                 [type |-> "ArrayAccess", array |-> left,
                                  index |-> index.node]))) : index \in {parse("parse_expression", tokens, c.idx, NoneNode)}} : TRUE)) : c \in {consume(tokens, current_index, "PUNCTUATION", "[")}} : TRUE)
    ELSE Ok(left, current_index)

parse_pexp(tokens, current_index) ==
    LET token == current_token(tokens, current_index) IN
    IF token = NoneToken
    THEN Fail("TypeError", <<"'NoneType' object is not subscriptable">>, current_index)
    ELSE IF token[1] = "IDENTIFIER"
    THEN (CHOOSE result \in {(
         IF c.exc # "none" THEN c
         ELSE parse("parse_pexp_loop", tokens, c.idx, [type |-> "Identifier", name |-> c.node[2]])) : c \in {consume(tokens, current_index, "IDENTIFIER", None)}} : TRUE)
    ELSE IF token[2] = "this"
    THEN (CHOOSE result \in {(
         IF c.exc # "none" THEN c
         ELSE parse("parse_pexp_loop", tokens, c.idx, [type |-> "This"])) : c \in {consume(tokens, current_index, "RESERVED", "this")}} : TRUE)
    ELSE IF token[2] = "new"
    THEN (CHOOSE result \in {(
         IF c.exc # "none" THEN c
         ELSE parse("parse_pexp_loop", tokens, c.idx,
                  [type |-> "NewObject", class_name |-> c.node[2][2]])) : c \in {consume_all(tokens, current_index,
                              <<R("new"), AnyIdentifier, P("("), P(")")>>)}} : TRUE)
    ELSE IF token[2] = "("
    THEN (CHOOSE result \in {(
         IF c.exc # "none" THEN c
         ELSE (CHOOSE result \in {(
              IF left.exc # "none" THEN left
              ELSE (CHOOSE result \in {(
                   IF d.exc # "none" THEN d
                   ELSE parse("parse_pexp_loop", tokens, d.idx, left.node)) : d \in {consume(tokens, left.idx, "PUNCTUATION", ")")}} : TRUE)) : left \in {parse("parse_expression", tokens, c.idx, NoneNode)}} : TRUE)) : c \in {consume(tokens, current_index, "PUNCTUATION", "(")}} : TRUE)
    ELSE Fail("ParserError", <<"Unexpected token in primary expression">>, current_index)

parse_exps_loop(tokens, current_index, expressions) ==
    LET tok == current_token(tokens, current_index) IN
    IF tok # NoneToken /\ tok[2] = ","
    THEN (LET c == consume(tokens, current_index, "PUNCTUATION", ",") IN
         IF c.exc # "none" THEN c
         ELSE (CHOOSE result \in {(
              IF e.exc # "none" THEN e
              ELSE parse("parse_exps_loop", tokens, e.idx, Append(expressions, e.node))) : e \in {parse("parse_expression", tokens, c.idx, NoneNode)}} : TRUE))
    ELSE Ok([type |-> "ExpressionList", expressions |-> expressions], current_index)

parse_exps(tokens, current_index) ==
    (CHOOSE result \in {(
    IF e.exc # "none" THEN e
    ELSE parse("parse_exps_loop", tokens, e.idx, <<e.node>>)) : e \in {parse("parse_expression", tokens, current_index, NoneNode)}} : TRUE)

parse_commands_loop(tokens, current_index, commands) ==
    LET tok == current_token(tokens, current_index) IN
    IF tok # NoneToken /\ tok[2] # "}"
    THEN (CHOOSE result \in {(
         IF c.exc # "none" THEN c
         ELSE parse("parse_commands_loop", tokens, c.idx, Append(commands, c.node))) : c \in {parse("parse_command", tokens, current_index, NoneNode)}} : TRUE)
    ELSE Ok(commands, current_index)

parse_commands(tokens, current_index) == parse("parse_commands_loop", tokens, current_index, <<>>)

\* The head of an if command: 'if' '(' condition ')'.
parse_if_condition(tokens, current_index) ==
    (CHOOSE result \in {(
    IF c.exc # "none" THEN c
    ELSE (CHOOSE result \in {(
         IF condition.exc # "none" THEN condition
         ELSE (CHOOSE result \in {(
              IF d.exc # "none" THEN d
              ELSE Ok(condition.node, d.idx)) : d \in {consume(tokens, condition.idx, "PUNCTUATION", ")")}} : TRUE)) : condition \in {parse("parse_expression", tokens, c.idx, NoneNode)}} : TRUE)) : c \in {consume_all(tokens, current_index, <<R("if"), P("(")>>)}} : TRUE)

parse_command(tokens, current_index) ==
    LET token == current_token(tokens, current_index) IN
    IF token = NoneToken
    THEN Fail("TypeError", <<"'NoneType' object is not subscriptable">>, current_index)
    ELSE IF token[2] = "{"
    THEN (CHOOSE result \in {(
         IF c.exc # "none" THEN c
         ELSE (CHOOSE result \in {(
              IF commands.exc # "none" THEN commands
              ELSE (CHOOSE result \in {(
                   IF d.exc # "none" THEN d
                   ELSE Ok([type |-> "Block", commands |-> commands.node], d.idx)) : d \in {consume(tokens, commands.idx, "PUNCTUATION", "}")}} : TRUE)) : commands \in {parse("parse_commands", tokens, c.idx, NoneNode)}} : TRUE)) : c \in {consume(tokens, current_index, "PUNCTUATION", "{")}} : TRUE)
    ELSE IF token[2] = "System.out.println"
    THEN (CHOOSE result \in {(
         IF c.exc # "none" THEN c
         ELSE (CHOOSE result \in {(
              IF expression.exc # "none" THEN expression
              ELSE (CHOOSE result \in {(
                   IF d.exc # "none" THEN d
                   ELSE Ok([type |-> "Print", expression |-> expression.node], d.idx)) : d \in {consume_all(tokens, expression.idx, <<P(")"), P(";")>>)}} : TRUE)) : expression \in {parse("parse_expression", tokens, c.idx, NoneNode)}} : TRUE)) : c \in {consume_all(tokens, current_index,
                              <<R("System.out.println"), P("(")>>)}} : TRUE)
    ELSE IF token[2] = "if"
    THEN (CHOOSE result \in {(
         IF head.exc # "none" THEN head
         ELSE (CHOOSE result \in {(
              IF if_true.exc # "none" THEN if_true
              ELSE LET tok == current_token(tokens, if_true.idx)
                       e == consume(tokens, if_true.idx, "RESERVED", "else") IN
                   IF tok # NoneToken /\ tok[2] = "else"
                   THEN IF e.exc # "none" THEN e
                        ELSE (CHOOSE result \in {(
                             IF if_false.exc # "none" THEN if_false
                             ELSE Ok([type |-> "If",
                                      condition |-> head.node,
                                      if_true |-> if_true.node,
                                      if_false |-> if_false.node], if_false.idx)) : if_false \in {parse("parse_command", tokens, e.idx, NoneNode)}} : TRUE)
                   ELSE Ok([type |-> "If", condition |-> head.node,
                            if_true |-> if_true.node,
                            if_false |-> NoneNode], if_true.idx)) : if_true \in {parse("parse_command", tokens, head.idx, NoneNode)}} : TRUE)) : head \in {parse_if_condition(tokens, current_index)}} : TRUE)
    ELSE IF token[2] = "while"
    THEN (CHOOSE result \in {(
         IF c.exc # "none" THEN c
         ELSE (CHOOSE result \in {(
              IF condition.exc # "none" THEN condition
              ELSE (CHOOSE result \in {(
                   IF d.exc # "none" THEN d
                   ELSE (CHOOSE result \in {(
                        IF body.exc # "none" THEN body
                        ELSE Ok([type |-> "While", condition |-> condition.node,
                                 body |-> body.node], body.idx)) : body \in {parse("parse_command", tokens, d.idx, NoneNode)}} : TRUE)) : d \in {consume(tokens, condition.idx, "PUNCTUATION", ")")}} : TRUE)) : condition \in {parse("parse_expression", tokens, c.idx, NoneNode)}} : TRUE)) : c \in {consume_all(tokens, current_index, <<R("while"), P("(")>>)}} : TRUE)
    ELSE IF token[1] = "IDENTIFIER"
    THEN (LET c == consume(tokens, current_index, "IDENTIFIER", None) IN
         IF c.exc # "none" THEN c
         ELSE LET identifier == c.node[2]
                  tok == current_token(tokens, c.idx) IN
              IF tok # NoneToken /\ tok[2] = "="
              THEN (CHOOSE result \in {(
                   IF d.exc # "none" THEN d
                   ELSE (CHOOSE result \in {(
                        IF value.exc # "none" THEN value
                        ELSE (CHOOSE result \in {(
                             IF e.exc # "none" THEN e
                             ELSE Ok([type |-> "Assignment", target |-> identifier,
                                      value |-> value.node], e.idx)) : e \in {consume(tokens, value.idx, "PUNCTUATION", ";")}} : TRUE)) : value \in {parse("parse_expression", tokens, d.idx, NoneNode)}} : TRUE)) : d \in {consume(tokens, c.idx, "OPERATOR", "=")}} : TRUE)
              ELSE IF tok # NoneToken /\ tok[2] = "["
              THEN (CHOOSE result \in {(
                   IF d.exc # "none" THEN d
                   ELSE (CHOOSE result \in {(
                        IF index.exc # "none" THEN index
                        ELSE (CHOOSE result \in {(
                             IF e.exc # "none" THEN e
                             ELSE (CHOOSE result \in {(
                                  IF value.exc # "none" THEN value
                                  ELSE (CHOOSE result \in {(
                                       IF f.exc # "none" THEN f
                                       ELSE Ok([type |-> "ArrayAssignment",
                                                target |-> identifier,
                                                index |-> index.node,
                                                value |-> value.node], f.idx)) : f \in {consume(tokens, value.idx, "PUNCTUATION", ";")}} : TRUE)) : value \in {parse("parse_expression", tokens, e.idx, NoneNode)}} : TRUE)) : e \in {consume_all(tokens, index.idx, <<P("]"), O("=")>>)}} : TRUE)) : index \in {parse("parse_expression", tokens, d.idx, NoneNode)}} : TRUE)) : d \in {consume(tokens, c.idx, "PUNCTUATION", "[")}} : TRUE)
              ELSE Fail("ParserError", <<"Unexpected token in command">>, c.idx))
    ELSE Fail("ParserError", <<"Unexpected token in command">>, current_index)

\* The loop of parse_method over local variables and commands up to 'return'.
parse_method_body(tokens, current_index, local_variables, commands) ==
    LET tok == current_token(tokens, current_index) IN
    IF tok # NoneToken /\ tok[2] # "return"
    THEN IF tok[1] = "RESERVED" /\ tok[2] \in {"int", "boolean"}
         THEN (CHOOSE result \in {(
              IF v.exc # "none" THEN v
              ELSE parse("parse_method_body", tokens, v.idx, <<Append(local_variables, v.node), commands>>)) : v \in {parse_variable(tokens, current_index)}} : TRUE)
         ELSE (CHOOSE result \in {(
              IF c.exc # "none" THEN c
              ELSE parse("parse_method_body", tokens, c.idx, <<local_variables, Append(commands, c.node)>>)) : c \in {parse("parse_command", tokens, current_index, NoneNode)}} : TRUE)
    ELSE Ok([local_variables |-> local_variables, commands |-> commands], current_index)

\* The head of parse_method: 'public' type name '(' parameters ')' '{'.
parse_method_signature(tokens, current_index) ==
    (CHOOSE result \in {(
    IF c.exc # "none" THEN c
    ELSE (CHOOSE result \in {(
    IF return_type.exc # "none" THEN return_type
    ELSE (CHOOSE result \in {(
    IF d.exc # "none" THEN d
    ELSE LET tok == current_token(tokens, d.idx) IN
    (CHOOSE result \in {(
    IF parameters.exc # "none" THEN parameters
    ELSE (CHOOSE result \in {(
    IF e.exc # "none" THEN e
    ELSE Ok([return_type |-> return_type.node, name |-> d.node[1][2],
             parameters |-> parameters.node], e.idx)) : e \in {consume_all(tokens, parameters.idx, <<P(")"), P("{")>>)}} : TRUE)) : parameters \in {IF tok # NoneToken /\ tok[1] # "PUNCTUATION"
                          THEN parse_params(tokens, d.idx)
                          ELSE Ok(<<>>, d.idx)}} : TRUE)) : d \in {consume_all(tokens, return_type.idx, <<AnyIdentifier, P("(")>>)}} : TRUE)) : return_type \in {parse_type(tokens, c.idx)}} : TRUE)) : c \in {consume(tokens, current_index, "RESERVED", "public")}} : TRUE)

parse_method(tokens, current_index) ==
    (CHOOSE result \in {(
    IF signature.exc # "none" THEN signature
    ELSE (CHOOSE result \in {(
    IF body.exc # "none" THEN body
    ELSE LET f == consume(tokens, body.idx, "RESERVED", "return") IN
    IF f.exc # "none" THEN f
    ELSE (CHOOSE result \in {(
    IF return_expression.exc # "none" THEN return_expression
    ELSE (CHOOSE result \in {(
    IF g.exc # "none" THEN g
    ELSE Ok([type |-> "Method",
             return_type |-> signature.node.return_type,
             name |-> signature.node.name,
             parameters |-> signature.node.parameters,
             local_variables |-> body.node.local_variables,
             commands |-> body.node.commands,
             return_expression |-> return_expression.node], g.idx)) : g \in {consume_all(tokens, return_expression.idx, <<P(";"), P("}")>>)}} : TRUE)) : return_expression \in {parse("parse_expression", tokens, f.idx, NoneNode)}} : TRUE)) : body \in {parse("parse_method_body", tokens, signature.idx, << <<>>, <<>> >>)}} : TRUE)) : signature \in {parse_method_signature(tokens, current_index)}} : TRUE)

\* The loop of parse_class over field declarations and methods up to '}'.
parse_class_body(tokens, current_index, variables, methods) ==
    LET tok == current_token(tokens, current_index) IN
    IF tok # NoneToken /\ tok[2] # "}"
    THEN IF tok[2] = "public"
         THEN (CHOOSE result \in {(
              IF m.exc # "none" THEN m
              ELSE parse("parse_class_body", tokens, m.idx, <<variables, Append(methods, m.node)>>)) : m \in {parse("parse_method", tokens, current_index, NoneNode)}} : TRUE)
         ELSE (CHOOSE result \in {(
              IF v.exc # "none" THEN v
              ELSE parse("parse_class_body", tokens, v.idx, <<Append(variables, v.node), methods>>)) : v \in {parse_variable(tokens, current_index)}} : TRUE)
    ELSE Ok([variables |-> variables, methods |-> methods], current_index)

parse_class(tokens, current_index) ==
    (CHOOSE result \in {(
    IF c.exc # "none" THEN c
    ELSE LET class_name == c.node[2][2]
             tok == current_token(tokens, c.idx)
             parent == IF tok # NoneToken /\ tok[2] = "extends"
                       THEN consume_all(tokens, c.idx, <<R("extends"), AnyIdentifier>>)
                       ELSE Ok(<<>>, c.idx) IN
    IF parent.exc # "none" THEN parent
    ELSE LET parent_name == IF parent.node = <<>> THEN None ELSE parent.node[2][2]
             d == consume(tokens, parent.idx, "PUNCTUATION", "{") IN
    IF d.exc # "none" THEN d
    ELSE (CHOOSE result \in {(
    IF body.exc # "none" THEN body
    ELSE (CHOOSE result \in {(
    IF e.exc # "none" THEN e
    ELSE Ok([type |-> "Class", name |-> class_name, parent |-> parent_name,
             variables |-> body.node.variables, methods |-> body.node.methods], e.idx)) : e \in {consume(tokens, body.idx, "PUNCTUATION", "}")}} : TRUE)) : body \in {parse("parse_class_body", tokens, d.idx, << <<>>, <<>> >>)}} : TRUE)) : c \in {consume_all(tokens, current_index, <<R("class"), AnyIdentifier>>)}} : TRUE)

parse_main(tokens, current_index) ==
    (CHOOSE result \in {(
    IF a.exc # "none" THEN a
    ELSE (CHOOSE result \in {(
    IF commands.exc # "none" THEN commands
    ELSE (CHOOSE result \in {(
    IF b.exc # "none" THEN b
    ELSE Ok([type |-> "MainClass", class_name |-> a.node[2][2],
             argument_name |-> a.node[12][2], commands |-> commands.node], b.idx)) : b \in {consume_all(tokens, commands.idx, <<P("}"), P("}")>>)}} : TRUE)) : commands \in {parse("parse_commands", tokens, a.idx, NoneNode)}} : TRUE)) : a \in {consume_all(tokens, current_index,
                 <<R("class"), AnyIdentifier, P("{"), R("public"), R("static"),
                   R("void"), R("main"), P("("), R("String"), P("["), P("]"),
                   AnyIdentifier, P(")"), P("{")>>)}} : TRUE)

parse_classes_loop(tokens, current_index, classes) ==
    IF current_token(tokens, current_index) # NoneToken
    THEN (CHOOSE result \in {(
         IF c.exc # "none" THEN c
         ELSE parse("parse_classes_loop", tokens, c.idx, Append(classes, c.node))) : c \in {parse("parse_class", tokens, current_index, NoneNode)}} : TRUE)
    ELSE Ok(classes, current_index)

parse(routine, tokens, current_index, argument) ==
    CASE routine = "parse_expression" -> parse_expression(tokens, current_index)
      [] routine = "parse_expression_loop" -> parse_expression_loop(tokens, current_index, argument)
      [] routine = "parse_rexp" -> parse_rexp(tokens, current_index)
      [] routine = "parse_rexp_loop" -> parse_rexp_loop(tokens, current_index, argument)
      [] routine = "parse_aexp" -> parse_aexp(tokens, current_index)
      [] routine = "parse_aexp_loop" -> parse_aexp_loop(tokens, current_index, argument)
      [] routine = "parse_mexp" -> parse_mexp(tokens, current_index)
      [] routine = "parse_mexp_loop" -> parse_mexp_loop(tokens, current_index, argument)
      [] routine = "parse_sexp" -> parse_sexp(tokens, current_index)
      [] routine = "parse_pexp" -> parse_pexp(tokens, current_index)
      [] routine = "parse_pexp_loop" -> parse_pexp_loop(tokens, current_index, argument)
      [] routine = "parse_exps" -> parse_exps(tokens, current_index)
      [] routine = "parse_exps_loop" -> parse_exps_loop(tokens, current_index, argument)
      [] routine = "parse_commands" -> parse_commands(tokens, current_index)
      [] routine = "parse_commands_loop" -> parse_commands_loop(tokens, current_index, argument)
      [] routine = "parse_command" -> parse_command(tokens, current_index)
      [] routine = "parse_method_body" ->
            parse_method_body(tokens, current_index, argument[1], argument[2])
      [] routine = "parse_method" -> parse_method(tokens, current_index)
      [] routine = "parse_class_body" ->
            parse_class_body(tokens, current_index, argument[1], argument[2])
      [] routine = "parse_class" -> parse_class(tokens, current_index)
      [] routine = "parse_main" -> parse_main(tokens, current_index)
      [] routine = "parse_classes_loop" -> parse_classes_loop(tokens, current_index, argument)
      [] routine = "parse_params_loop" -> parse_params_loop(tokens, current_index, argument)

parse_program(tokens) ==
    With([main_class \in {parse("parse_main", tokens, 0, NoneNode)} |->
    IF main_class.exc # "none" THEN main_class
    ELSE With([classes \in {parse("parse_classes_loop", tokens, main_class.idx, <<>>)} |->
         IF classes.exc # "none" THEN classes
         ELSE Ok([type |-> "Program", main_class |-> main_class.node,
                  classes |-> classes.node], classes.idx)])])

(***************************************************************************)
(* Python dicts.  A dict is the sequence of its <<key, value>> items in    *)
(* insertion order; assigning to an existing key keeps its position.       *)
(***************************************************************************)
EmptyDict == <<>>
DictKeys(d) == {d[i][1] : i \in 1..Len(d)}
DictHas(d, k) == \E i \in 1..Len(d) : d[i][1] = k
DictGet(d, k) == d[CHOOSE i \in 1..Len(d) : d[i][1] = k][2]
DictPut(d, k, v) ==
    IF DictHas(d, k)
    THEN [d EXCEPT ![CHOOSE i \in 1..Len(d) : d[i][1] = k] = <<k, v>>]
    ELSE Append(d, <<k, v>>)
\* node.get(key, default) on a syntax-tree node
NodeGet(node, key, default) == IF key \in DOMAIN node THEN node[key] ELSE default


(***************************************************************************)
(* Semantic analyzer (minijava_semantic.py)                                *)
(***************************************************************************)
\* {param["name"]: param["param_type"] for param in method["parameters"]}
RECURSIVE ParametersDict(_)
ParametersDict(parameters) ==
    IF parameters = <<>> THEN EmptyDict
    ELSE LET n == Len(parameters) IN
         DictPut(ParametersDict(SubSeq(parameters, 1, n - 1)),
                 parameters[n].name, parameters[n].param_type)

\* for var in clazz.get("fields", []): fields[var["name"]] = var["var_type"]
RECURSIVE collect_fields(_, _)
collect_fields(fields, vars) ==
    IF vars = <<>> THEN fields
    ELSE collect_fields(DictPut(fields, vars[1].name, vars[1].var_type), Tail(vars))

\* for method in clazz["methods"]: ...  The result's val is the methods dict as the
\* loop left it, whether it ended or raised.
RECURSIVE collect_methods(_, _, _)
collect_methods(methods, class_name, method_nodes) ==
    IF method_nodes = <<>> THEN Ret(methods)
    ELSE LET method == method_nodes[1]
             method_name == method.name IN
         IF DictHas(methods, method_name)
         THEN [exc |-> "SemanticError",
               msg |-> <<"Duplicate method name", method_name, class_name>>,
               val |-> methods]
         ELSE collect_methods(
                  DictPut(methods, method_name,
                          [parameters |-> ParametersDict(method.parameters),
                           return_type |-> method.return_type]),
                  class_name, Tail(method_nodes))

RECURSIVE collect_classes(_, _)
collect_classes(table, classes) ==
    IF classes = <<>> THEN Ret(table)
    ELSE LET clazz == classes[1]
             class_name == clazz.name
             t1 == IF ~DictHas(table, class_name)
                   THEN DictPut(table, class_name,
                                [fields |-> EmptyDict, methods |-> EmptyDict,
                                 extends |-> NodeGet(clazz, "extends", None)])
                   ELSE table
             entry == DictGet(t1, class_name)
             fields == collect_fields(entry.fields, NodeGet(clazz, "fields", <<>>))
             methods == collect_methods(entry.methods, class_name, clazz.methods)
             t2 == DictPut(t1, class_name,
                           [entry EXCEPT !.fields = fields, !.methods = methods.val]) IN
         IF methods.exc # "none" THEN [methods EXCEPT !.val = t2]
         ELSE collect_classes(t2, Tail(classes))

\* The result's val is the symbol table as the first pass left it.
collect_declarations(table, node) ==
    IF node.type = "Program"
    THEN LET main_class_name == node.main_class.class_name
             t0 == IF ~DictHas(table, main_class_name)
                   THEN DictPut(table, main_class_name,
                                [fields |-> EmptyDict, methods |-> EmptyDict,
                                 extends |-> None])
                   ELSE table IN
         collect_classes(t0, node.classes)
    ELSE Ret(table)

RECURSIVE get_expression_type(_, _, _)
get_expression_type(table, expr, method_table) ==
    IF expr.type = "Constant" THEN Ret("int")
    ELSE IF expr.type = "Variable"
    THEN IF DictHas(method_table, expr.name) THEN Ret(DictGet(method_table, expr.name))
         ELSE Raise("UnboundLocalError", <<"class_name">>)
    ELSE IF expr.type \in {"BinaryOperation", "ArithmeticOp"}
    THEN With([left_type \in {get_expression_type(table, expr.left, method_table)} |->
         IF left_type.exc # "none" THEN left_type
         ELSE With([right_type \in {get_expression_type(table, expr.right, method_table)} |->
              IF right_type.exc # "none" THEN right_type
              ELSE IF left_type.val = right_type.val /\ right_type.val = "int"
              THEN Ret("int")
              ELSE Raise("SemanticError",
                         <<"Incompatible types in operation", left_type.val, right_type.val>>)])])
    ELSE IF expr.type = "FunctionCall"
    THEN IF DictHas(table, expr.target_class)
            /\ DictHas(DictGet(table, expr.target_class).methods, expr.method)
         THEN Ret(DictGet(DictGet(table, expr.target_class).methods, expr.method).return_type)
         ELSE Raise("SemanticError", <<"Method", expr.method, "not found in class",
                                       expr.target_class>>)
    ELSE IF expr.type = "Number" THEN Ret("int")
    ELSE IF expr.type = "Identifier"
    THEN IF DictHas(method_table, expr.name) THEN Ret(DictGet(method_table, expr.name))
         ELSE Raise("SemanticError", <<"Variable", expr.name, "is not declared.">>)
    ELSE Raise("SemanticError", <<"Unsupported expression type:", expr.type>>)

\* The loop over zip(arguments, expected_parameters.items()), from position i.
RECURSIVE check_arguments(_, _, _, _, _, _)
check_arguments(table, method_name, arguments, expected_parameters, method_table, i) ==
    IF i > Len(arguments) \/ i > Len(expected_parameters) THEN Ret(None)
    ELSE LET arg_type == get_expression_type(table, arguments[i], method_table)
             param_type == expected_parameters[i][2] IN
         IF arg_type.exc # "none" THEN arg_type
         ELSE IF arg_type.val # param_type
         THEN Raise("SemanticError", <<"Argument of method", method_name, "is of type",
                                       arg_type.val, "but expected", param_type>>)
         ELSE check_arguments(table, method_name, arguments, expected_parameters,
                              method_table, i + 1)

validate_method_call(table, node, method_table) ==
    LET target == node.target
        method_name == node.method_name IN
    IF "expressions" \notin DOMAIN node.arguments
    THEN Raise("TypeError", <<"list indices must be integers or slices, not str">>)
    ELSE LET arguments == node.arguments.expressions IN
    IF target.type \notin {"NewObject", "This"}
    THEN Raise("SemanticError", <<"Unsupported method call target">>)
    ELSE LET class_name == IF target.type = "NewObject" THEN target.class_name
                           ELSE IF DictHas(method_table, "current_class")
                                THEN DictGet(method_table, "current_class")
                                ELSE None IN
    IF ~DictHas(table, class_name)
    THEN Raise("SemanticError", <<"Class", class_name, "not found.">>)
    ELSE IF ~DictHas(DictGet(table, class_name).methods, method_name)
    THEN Raise("SemanticError", <<"Method", method_name, "not found in class", class_name>>)
    ELSE LET expected_parameters ==
                 DictGet(DictGet(table, class_name).methods, method_name).parameters IN
    IF Len(arguments) # Len(expected_parameters)
    THEN Raise("SemanticError", <<"Method", method_name, "expects a different number of arguments">>)
    ELSE check_arguments(table, method_name, arguments, expected_parameters, method_table, 1)

RECURSIVE check_expression(_, _, _), check_expressions(_, _, _)
check_expression(table, expression, method_table) ==
    IF expression.type = "MethodCall"
    THEN validate_method_call(table, expression, method_table)
    ELSE IF expression.type \in {"ArithmeticOp", "RelationalOp", "LogicalOp"}
    THEN With([l \in {check_expression(table, expression.left, method_table)} |->
         IF l.exc # "none" THEN l
         ELSE check_expression(table, expression.right, method_table)])
    ELSE IF expression.type = "UnaryOp"
    THEN check_expression(table, expression.operand, method_table)
    ELSE IF expression.type = "Identifier"
    THEN IF ~DictHas(method_table, expression.name)
         THEN Raise("SemanticError", <<"Variable", expression.name, "is not declared.">>)
         ELSE Ret(None)
    ELSE IF expression.type \in {"Number", "Boolean"} THEN Ret(None)
    ELSE IF expression.type = "NewObject"
    THEN IF ~DictHas(table, expression.class_name)
         THEN Raise("SemanticError", <<"Class", expression.class_name, "is not defined.">>)
         ELSE Ret(None)
    ELSE IF expression.type = "This"
    THEN IF ~DictHas(method_table, "current_class")
         THEN Raise("SemanticError", <<"'this' cannot be used outside a class context.">>)
         ELSE Ret(None)
    ELSE IF expression.type = "ArrayAccess"
    THEN With([a \in {check_expression(table, expression.array, method_table)} |->
         IF a.exc # "none" THEN a
         ELSE check_expression(table, expression.index, method_table)])
    ELSE IF expression.type = "ArrayLength"
    THEN check_expression(table, expression.array, method_table)
    ELSE IF expression.type = "ArrayInstantiation"
    THEN check_expression(table, expression.size, method_table)
    ELSE IF expression.type = "ExpressionList"
    THEN check_expressions(table, expression.expressions, method_table)
    ELSE Raise("SemanticError", <<"Unsupported expression type:", expression.type>>)

check_expressions(table, expressions, method_table) ==
    IF expressions = <<>> THEN Ret(None)
    ELSE With([e \in {check_expression(table, expressions[1], method_table)} |->
         IF e.exc # "none" THEN e
         ELSE check_expressions(table, Tail(expressions), method_table)])

\* Lines 130-131 (simplify_expression) apply to a node that has the key
\* "expression" and is not a Print; check_command accepts no such node, so
\* the syntax tree is returned as it was.
RECURSIVE check_command(_, _, _), check_commands(_, _, _)
check_command(table, node, method_table) ==
    IF node = NoneNode
    THEN Raise("TypeError", <<"'NoneType' object is not subscriptable">>)
    ELSE IF node.type = "Assignment"
    THEN LET var_name == node.target IN
         IF ~DictHas(method_table, var_name)
         THEN Raise("SemanticError", <<"Variable", var_name,
                                       "is not declared in the current or outer scope.">>)
         ELSE check_expression(table, node.value, method_table)
    ELSE IF node.type = "If"
    THEN With([c \in {check_expression(table, node.condition, method_table)} |->
         IF c.exc # "none" THEN c
         ELSE With([t \in {check_command(table, node.if_true, method_table)} |->
              IF t.exc # "none" THEN t
              ELSE IF "if_false" \in DOMAIN node
              THEN check_command(table, node.if_false, method_table)
              ELSE Ret(None)])])
    ELSE IF node.type = "While"
    THEN With([c \in {check_expression(table, node.condition, method_table)} |->
         IF c.exc # "none" THEN c
         ELSE check_command(table, node.body, method_table)])
    ELSE IF node.type = "Print"
    THEN check_expression(table, node.expression, method_table)
    ELSE IF node.type = "Return"
    THEN check_expression(table, node.value, method_table)
    ELSE IF node.type = "Block"
    THEN check_commands(table, node.commands, method_table)
    ELSE IF node.type = "MethodCall"
    THEN validate_method_call(table, node, method_table)
    ELSE Raise("SemanticError", <<"Unsupported command type:", node.type>>)

check_commands(table, commands, method_table) ==
    IF commands = <<>> THEN Ret(None)
    ELSE With([c \in {check_command(table, commands[1], method_table)} |->
         IF c.exc # "none" THEN c
         ELSE check_commands(table, Tail(commands), method_table)])

\* for param in method["parameters"]: method_table[param_name] = param["param_type"]
RECURSIVE add_parameters(_, _)
add_parameters(method_table, parameters) ==
    IF parameters = <<>> THEN method_table
    ELSE add_parameters(DictPut(method_table, parameters[1].name, parameters[1].param_type),
                        Tail(parameters))

\* for var in method["local_variables"]: ... (the method table or the exception)
RECURSIVE add_local_variables(_, _, _)
add_local_variables(method_table, local_variables, method_name) ==
    IF local_variables = <<>> THEN Ret(method_table)
    ELSE LET var_name == local_variables[1].name IN
         IF DictHas(method_table, var_name)
         THEN Raise("SemanticError", <<"Duplicate local variable", var_name, method_name>>)
         ELSE add_local_variables(DictPut(method_table, var_name, local_variables[1].var_type),
                                  Tail(local_variables), method_name)

\* The method table validate_method builds for a method (or the exception).
MethodTable(method, class_name) ==
    add_local_variables(
        add_parameters(DictPut(EmptyDict, "current_class", class_name), method.parameters),
        method.local_variables, method.name)

validate_method(table, method, class_name) ==
    With([method_table \in {MethodTable(method, class_name)} |->
    IF method_table.exc # "none" THEN method_table
    ELSE With([c \in {check_commands(table, method.commands, method_table.val)} |->
         IF c.exc # "none" THEN c
         ELSE IF "return_expression" \in DOMAIN method
         THEN With([return_type \in {
                      get_expression_type(table, method.return_expression, method_table.val)} |->
              IF return_type.exc # "none" THEN return_type
              ELSE IF return_type.val # method.return_type
              THEN Raise("SemanticError", <<"Return type mismatch in method", method.name>>)
              ELSE Ret(None)])
         ELSE Ret(None)])])

RECURSIVE validate_methods(_, _, _)
validate_methods(table, methods, class_name) ==
    IF methods = <<>> THEN Ret(None)
    ELSE With([m \in {validate_method(table, methods[1], class_name)} |->
         IF m.exc # "none" THEN m
         ELSE validate_methods(table, Tail(methods), class_name)])

validate_class(table, node) == validate_methods(table, node.methods, node.name)

RECURSIVE validate_classes(_, _)
validate_classes(table, classes) ==
    IF classes = <<>> THEN Ret(None)
    ELSE With([c \in {validate_class(table, classes[1])} |->
         IF c.exc # "none" THEN c
         ELSE validate_classes(table, Tail(classes))])

validate_main_class(table, node) ==
    IF node.type # "MainClass"
    THEN Raise("SemanticError", <<"Expected 'MainClass'">>)
    ELSE check_commands(table, node.commands,
                        DictPut(EmptyDict, "current_class", node.class_name))

validate_program(table, node) ==
    IF node.type = "Program"
    THEN With([m \in {validate_main_class(table, node.main_class)} |->
         IF m.exc # "none" THEN m
         ELSE validate_classes(table, node.classes)])
    ELSE Ret(None)

\* MiniJavaSemanticAnalyzer.analyze: table is self.symbol_table when analyze
\* returns or raises, val the syntax tree it returns.
analyze(syntax_tree) ==
    With([declarations \in {collect_declarations(EmptyDict, syntax_tree)} |->
    IF declarations.exc # "none"
    THEN [exc |-> declarations.exc, msg |-> declarations.msg, val |-> None,
          table |-> declarations.val]
    ELSE With([validation \in {validate_program(declarations.val, syntax_tree)} |->
         IF validation.exc # "none"
         THEN [exc |-> validation.exc, msg |-> validation.msg, val |-> None,
               table |-> declarations.val]
         ELSE [exc |-> "none", msg |-> <<>>, val |-> syntax_tree,
               table |-> declarations.val]])])

(***************************************************************************)
(* Inheritance resolution (minijava_semantic.py, resolve_inheritance)      *)
(***************************************************************************)
\* A check of the parameters that compares no types.
check_override_parameters_unchecked(class_name, method_name, parent_method, child_method) ==
    Ret(None)

\* check_method_override when the return types are equal and the parameter counts too:
\* the zip over the two parameter dicts, raising at the first position whose types differ.
check_override_parameters(class_name, method_name, parent_method, child_method) ==
    LET differing == {i \in 1..Len(parent_method.parameters) :
                         parent_method.parameters[i][2] # child_method.parameters[i][2]} IN
    IF differing = {} THEN Ret(None)
    ELSE Raise("SemanticError",
               <<"Method", method_name, "in class", class_name, "overrides parameter",
                 parent_method.parameters[SetMin(differing)][1], "with incompatible type",
                 parent_method.parameters[SetMin(differing)][2],
                 child_method.parameters[SetMin(differing)][2]>>)

check_method_override(class_name, method_name, parent_method, child_method) ==
    IF parent_method.return_type # child_method.return_type
    THEN Raise("SemanticError",
               <<"Method", method_name, "in class", class_name,
                 "overrides with incompatible return type",
                 parent_method.return_type, child_method.return_type>>)
    ELSE IF Len(parent_method.parameters) # Len(child_method.parameters)
    THEN Raise("SemanticError",
               <<"Method", method_name, "in class", class_name,
                 "overrides with incompatible parameter count">>)
    ELSE check_override_parameters(class_name, method_name, parent_method, child_method)

\* for field, field_type in parent["fields"].items(): if field not in child["fields"]: ...
inherit_fields(child_fields, parent_fields) ==
    LET merged[i \in 0..Len(parent_fields)] ==
            IF i = 0 THEN child_fields
            ELSE IF DictHas(merged[i - 1], parent_fields[i][1]) THEN merged[i - 1]
            ELSE DictPut(merged[i - 1], parent_fields[i][1], parent_fields[i][2]) IN
    merged[Len(parent_fields)]

\* One iteration of the loop over parent["methods"].items(): the child's methods dict
\* after it, or the exception check_method_override raised.
inherit_method(class_name, child_methods, method, method_data) ==
    IF ~DictHas(child_methods, method)
    THEN Ret(DictPut(child_methods, method, method_data))
    ELSE With([checked \in {check_method_override(class_name, method, method_data,
                                                  DictGet(child_methods, method))} |->
         IF checked.exc # "none"
         THEN [exc |-> checked.exc, msg |-> checked.msg, val |-> child_methods]
         ELSE Ret(child_methods)])

\* for method, method_data in parent["methods"].items(): ...  The result's val is the
\* child's methods dict as the loop left it, whether it ended or raised.
inherit_methods(class_name, child_methods, parent_methods) ==
    LET merged[i \in 0..Len(parent_methods)] ==
            IF i = 0 THEN Ret(child_methods)
            ELSE IF merged[i - 1].exc # "none" THEN merged[i - 1]
            ELSE inherit_method(class_name, merged[i - 1].val,
                                parent_methods[i][1], parent_methods[i][2]) IN
    merged[Len(parent_methods)]

\* resolve_class_inheritance after the recursive call returned: the parent's fields and
\* methods are merged into the child's entry.  The result's val is the symbol table.
inherit(table, class_name, parent_name) ==
    With([fields \in {inherit_fields(DictGet(table, class_name).fields,
                                     DictGet(table, parent_name).fields)} |->
    With([methods \in {inherit_methods(class_name, DictGet(table, class_name).methods,
                                       DictGet(table, parent_name).methods)} |->
        [exc |-> methods.exc, msg |-> methods.msg,
         val |-> DictPut(table, class_name,
                         [DictGet(table, class_name) EXCEPT
                             !.fields = fields, !.methods = methods.val])]])])

\* An entry that returns from a class already visited instead of raising.
enter_class_returning(table, class_name, visited) ==
    IF class_name \in visited THEN Ret(None)
    ELSE IF DictGet(table, class_name).extends \in {None, ""} THEN Ret(None)
    ELSE IF ~DictHas(table, DictGet(table, class_name).extends)
    THEN Raise("SemanticError",
               <<"Class", DictGet(table, class_name).extends, "extended by", class_name,
                 "is not defined">>)
    ELSE Ret(DictGet(table, class_name).extends)

\* resolve_class_inheritance up to its recursive call: the visited check, visited.add and
\* the lookup of the parent.  val is the parent to resolve next, None to return at once.
enter_class(table, class_name, visited) ==
    IF class_name \in visited
    THEN Raise("SemanticError", <<"Cyclic inheritance detected in class", class_name>>)
    ELSE IF DictGet(table, class_name).extends \in {None, ""} THEN Ret(None)
    ELSE IF ~DictHas(table, DictGet(table, class_name).extends)
    THEN Raise("SemanticError",
               <<"Class", DictGet(table, class_name).extends, "extended by", class_name,
                 "is not defined">>)
    ELSE Ret(DictGet(table, class_name).extends)

(***************************************************************************)
(* Code generator (minijava_codegen.py)                                    *)
(*                                                                         *)
(* The generator object is the record g of its mutable fields.  A routine  *)
(* returns [exc, msg, g, reg]: the generator as it left it and, for        *)
(* generate_expression, the register it returns (None for no value).       *)
(* The optional arguments current_class, param_map and local_var_offsets   *)
(* travel as the record context; each is NoneValue, StrValue or DictValue. *)
(***************************************************************************)
NoneValue == [is |-> "None"]
StrValue(s) == [is |-> "str", value |-> s]
DictValue(d) == [is |-> "dict", value |-> d]
\* generate_command(command) as generate_main_class calls it: every optional argument None.
NoContext ==
    [current_class |-> NoneValue, param_map |-> NoneValue, local_var_offsets |-> NoneValue]
\* A call that passes current_class only.
OnlyClass(context) == [NoContext EXCEPT !.current_class = context.current_class]

\* MiniJavaCodeGenerator.__init__
registers == <<"$t0", "$t1", "$t2", "$t3", "$t4", "$t5", "$t6", "$t7", "$t8", "$t9">>
MiniJavaCodeGenerator(tree, table) ==
    [syntax_tree |-> tree, symbol_table |-> table, output |-> <<>>, label_counter |-> 0,
     used_registers |-> {}, data_section |-> <<>>, text_section |-> <<>>]

GOk(g, reg) == [exc |-> "none", msg |-> <<>>, g |-> g, reg |-> reg]
GRaise(exc, msg, g) == [exc |-> exc, msg |-> msg, g |-> g, reg |-> None]

\* self.text_section.append(line), for one line and for several
Emit(g, line) == [g EXCEPT !.text_section = Append(@, line)]
EmitAll(g, lines) == [g EXCEPT !.text_section = @ \o lines]

\* allocate_register without self.used_registers.add(reg)
allocate_register_unrecorded(g) ==
    LET free == {i \in 1..Len(registers) : registers[i] \notin g.used_registers} IN
    IF free = {} THEN GRaise("CodeGenerationError", <<"No free registers available.">>, g)
    ELSE GOk(g, registers[SetMin(free)])

allocate_register(g) ==
    LET free == {i \in 1..Len(registers) : registers[i] \notin g.used_registers} IN
    IF free = {} THEN GRaise("CodeGenerationError", <<"No free registers available.">>, g)
    ELSE GOk([g EXCEPT !.used_registers = @ \cup {registers[SetMin(free)]}],
             registers[SetMin(free)])

\* free_register that leaves the register in use
free_register_kept(g, reg) == g

free_register(g, reg) == [g EXCEPT !.used_registers = @ \ {reg}]

\* object_size of `new class_name()`: the while loop over current_class.get("parent").
\* sizes[i] is <<object_size, current_class>> after i iterations; the loop ends when
\* current_class is None.
object_size(table, class_name) ==
    LET sizes[i \in 0..Len(table) + 1] ==
            IF i = 0 THEN <<0, class_name>>
            ELSE IF sizes[i - 1][2] = None \/ ~DictHas(table, sizes[i - 1][2])
            THEN <<sizes[i - 1][1], None>>
            ELSE <<sizes[i - 1][1] + Len(DictGet(table, sizes[i - 1][2]).fields) * 4,
                   NodeGet(DictGet(table, sizes[i - 1][2]), "parent", None)>> IN
    sizes[Len(table) + 1][1]

\* list(fields.keys()).index(field_name)
IndexOfKey(d, k) == (CHOOSE i \in 1..Len(d) : d[i][1] = k) - 1

\* resolve_field_offset: offsets[i] is <<offset, current_class, found>> after i
\* iterations of its while loop.
resolve_field_offset(g, class_name, field_name) ==
    LET table == g.symbol_table
        offsets[i \in 0..Len(table) + 1] ==
            IF i = 0 THEN <<0, class_name, FALSE>>
            ELSE IF offsets[i - 1][3] \/ offsets[i - 1][2] = None
                     \/ ~DictHas(table, offsets[i - 1][2])
            THEN offsets[i - 1]
            ELSE IF DictHas(DictGet(table, offsets[i - 1][2]).fields, field_name)
            THEN <<offsets[i - 1][1]
                     + IndexOfKey(DictGet(table, offsets[i - 1][2]).fields, field_name) * 4,
                   offsets[i - 1][2], TRUE>>
            ELSE <<offsets[i - 1][1] + Len(DictGet(table, offsets[i - 1][2]).fields) * 4,
                   NodeGet(DictGet(table, offsets[i - 1][2]), "parent", None), FALSE>> IN
    IF offsets[Len(table) + 1][3] THEN GOk(g, offsets[Len(table) + 1][1])
    ELSE GRaise("CodeGenerationError",
                <<"Field", field_name, "not found in class hierarchy of", class_name>>, g)

\* for offset in range(0, object_size, 4): sw $zero, offset(object_reg)
InitializeFields(size, object_reg) ==
    [k \in 1..(size \div 4) |->
        "sw $zero, " \o ToString(4 * (k - 1)) \o "(" \o object_reg \o ")  # Initialize field at offset "
            \o ToString(4 * (k - 1)) \o " to 0"]

RECURSIVE gen(_, _, _, _)

\* generate_expression for the nodes with two operands: both are evaluated, a result
\* register is allocated, the line emitted and the operand registers freed.
\* mnemonic is None for an operator the node kind does not support.
generate_binary(g, node, left_context, right_context, mnemonic, comment, unsupported) ==
    With([left \in {gen("generate_expression", g, node.left, left_context)} |->
    IF left.exc # "none" THEN left
    ELSE With([right \in {gen("generate_expression", left.g, node.right, right_context)} |->
         IF right.exc # "none" THEN right
         ELSE With([result \in {allocate_register(right.g)} |->
              IF result.exc # "none" THEN result
              ELSE IF mnemonic = None
              THEN GRaise("CodeGenerationError", <<unsupported, node.operator>>, result.g)
              ELSE GOk(free_register(
                           free_register(
                               Emit(result.g,
                                    mnemonic \o " " \o result.reg \o ", " \o left.reg \o ", "
                                        \o right.reg \o comment),
                               left.reg),
                           right.reg),
                       result.reg)])])])

ArithmeticMnemonic(operator) ==
    CASE operator = "+" -> "add" [] operator = "-" -> "sub" [] operator = "*" -> "mul"
      [] OTHER -> None
RelationalMnemonic(operator) ==
    CASE operator = "<" -> "slt" [] operator = "<=" -> "sle" [] operator = ">" -> "sgt"
      [] operator = ">=" -> "sge" [] operator = "==" -> "seq" [] operator = "!=" -> "sne"
      [] OTHER -> None
RelationalComment(operator) ==
    CASE operator = "<" -> "  # Less than" [] operator = "<=" -> "  # Less than or equal"
      [] operator = ">" -> "  # Greater than" [] operator = ">=" -> "  # Greater than or equal"
      [] operator = "==" -> "  # Equal" [] operator = "!=" -> "  # Not equal"
      [] OTHER -> ""

\* generate_expression, node["type"] == "Identifier"
generate_identifier(g, node, context) ==
    IF context.param_map.is # "dict"
    THEN GRaise("TypeError", <<"argument of type 'NoneType' is not iterable">>, g)
    ELSE IF DictHas(context.param_map.value, node.name)
    THEN With([r \in {allocate_register(g)} |->
         IF r.exc # "none" THEN r
         ELSE IF StartsWithAt(DictGet(context.param_map.value, node.name), 1, "$")
         THEN GOk(Emit(r.g, "move " \o r.reg \o ", " \o DictGet(context.param_map.value, node.name)
                              \o "  # Load parameter '" \o node.name \o "'"), r.reg)
         ELSE GOk(Emit(r.g, "lw " \o r.reg \o ", " \o DictGet(context.param_map.value, node.name)
                              \o "($fp)  # Load parameter '" \o node.name \o "' from stack"),
                  r.reg)])
    ELSE IF context.local_var_offsets.is # "dict"
    THEN GRaise("TypeError", <<"argument of type 'NoneType' is not iterable">>, g)
    ELSE IF DictHas(context.local_var_offsets.value, node.name)
    THEN With([r \in {allocate_register(g)} |->
         IF r.exc # "none" THEN r
         ELSE GOk(Emit(r.g, "lw " \o r.reg \o ", "
                              \o DictGet(context.local_var_offsets.value, node.name)
                              \o "($fp)  # Load local variable '" \o node.name \o "'"), r.reg)])
    ELSE GRaise("CodeGenerationError", <<"Unknown variable", node.name>>, g)

\* generate_expression, node["type"] == "NewObject"
generate_new_object(g, node) ==
    IF ~DictHas(g.symbol_table, node.class_name)
    THEN GRaise("CodeGenerationError", <<"Class", node.class_name, "is not defined.">>, g)
    ELSE With([size \in {object_size(g.symbol_table, node.class_name)} |->
         With([r \in {allocate_register(
                          EmitAll(g, <<"li $v0, 9  # Syscall for sbrk (memory allocation)",
                                       "li $a0, " \o ToString(size) \o "  # Set allocation size",
                                       "syscall">>))} |->
         IF r.exc # "none" THEN r
         ELSE GOk(EmitAll(Emit(r.g, "move " \o r.reg
                                       \o ", $v0  # Store allocated address for the object"),
                          InitializeFields(size, r.reg)),
                  r.reg)])])

\* generate_expression, node["type"] == "FieldAccess"
generate_field_access(g, node, context) ==
    With([object \in {gen("generate_expression", g, node.target, OnlyClass(context))} |->
    IF object.exc # "none" THEN object
    ELSE IF "class_name" \notin DOMAIN node.target
    THEN GRaise("KeyError", <<"class_name">>, object.g)
    ELSE With([offset \in {resolve_field_offset(object.g, node.target.class_name,
                                                node.field_name)} |->
         IF offset.exc # "none" THEN offset
         ELSE With([field \in {allocate_register(object.g)} |->
              IF field.exc # "none" THEN field
              ELSE GOk(free_register(
                           Emit(field.g, "lw " \o field.reg \o ", " \o ToString(offset.reg) \o "("
                                           \o object.reg \o ")  # Load field '"
                                           \o node.field_name \o "'"),
                           object.reg),
                       field.reg)])])])

\* generate_expression, node["type"] == "ArrayInstantiation"
generate_array_instantiation(g, node, context) ==
    With([size \in {gen("generate_expression", g, node.size, OnlyClass(context))} |->
    IF size.exc # "none" THEN size
    ELSE With([array \in {allocate_register(
                   EmitAll(size.g,
                           <<"mul " \o size.reg \o ", " \o size.reg
                                 \o ", 4  # Multiply size by 4 (word size)",
                             "addiu " \o size.reg \o ", " \o size.reg
                                 \o ", 4  # Add 4 bytes for the length",
                             "li $v0, 9  # Syscall for sbrk (memory allocation)",
                             "move $a0, " \o size.reg \o "  # Set allocation size",
                             "syscall">>))} |->
         IF array.exc # "none" THEN array
         ELSE GOk(free_register(
                      EmitAll(array.g,
                              <<"move " \o array.reg \o ", $v0  # Store allocated address",
                                "sw " \o size.reg \o ", 0(" \o array.reg
                                    \o ")  # Store array length at the beginning">>),
                      size.reg),
                  array.reg)])])

\* The three lines that turn index_reg into the address of array[index].
ElementAddress(index_reg, array_reg) ==
    <<"mul " \o index_reg \o ", " \o index_reg \o ", 4  # Multiply index by 4",
      "addiu " \o index_reg \o ", " \o index_reg \o ", 4  # Add 4 to skip the length field",
      "add " \o index_reg \o ", " \o array_reg \o ", " \o index_reg
          \o "  # Compute the final address">>

\* generate_expression, node["type"] == "ArrayAccess"
generate_array_access(g, node, context) ==
    With([array \in {gen("generate_expression", g, node.array, OnlyClass(context))} |->
    IF array.exc # "none" THEN array
    ELSE With([index \in {gen("generate_expression", array.g, node.index,
                              OnlyClass(context))} |->
         IF index.exc # "none" THEN index
         ELSE With([value \in {allocate_register(
                                   EmitAll(index.g, ElementAddress(index.reg, array.reg)))} |->
              IF value.exc # "none" THEN value
              ELSE GOk(free_register(
                           free_register(
                               Emit(value.g, "lw " \o value.reg \o ", 0(" \o index.reg
                                               \o ")  # Load value from array[index]"),
                               array.reg),
                           index.reg),
                       value.reg)])])])

\* generate_expression, node["type"] == "ArrayAssignment": it returns no register.
generate_array_assignment(g, node, context) ==
    IF "array" \notin DOMAIN node THEN GRaise("KeyError", <<"array">>, g)
    ELSE
    With([array \in {gen("generate_expression", g, node.array, context)} |->
    IF array.exc # "none" THEN array
    ELSE With([index \in {gen("generate_expression", array.g, node.index, context)} |->
         IF index.exc # "none" THEN index
         ELSE With([value \in {gen("generate_expression", index.g, node.value, context)} |->
              IF value.exc # "none" THEN value
              ELSE GOk(free_register(
                           free_register(
                               free_register(
                                   EmitAll(value.g,
                                           ElementAddress(index.reg, array.reg)
                                           \o <<"sw " \o value.reg \o ", 0(" \o index.reg
                                                  \o ")  # Store value into array[index]">>),
                                   array.reg),
                               index.reg),
                           value.reg),
                       None)])])])

\* generate_expression, node["type"] == "ArrayLength"
generate_array_length(g, node) ==
    With([array \in {gen("generate_expression", g, node.array, NoContext)} |->
    IF array.exc # "none" THEN array
    ELSE With([length \in {allocate_register(array.g)} |->
         IF length.exc # "none" THEN length
         ELSE GOk(free_register(
                      Emit(length.g, "lw " \o length.reg \o ", 0(" \o array.reg
                                       \o ")  # Load array length"),
                      array.reg),
                  length.reg)])])

\* generate_expression, node["type"] == "LogicalOp"
generate_logical(g, node, context) ==
    IF "operator" \notin DOMAIN node
    THEN With([left \in {gen("generate_expression", g, node.left, OnlyClass(context))} |->
         IF left.exc # "none" THEN left
         ELSE With([right \in {gen("generate_expression", left.g, node.right,
                                   OnlyClass(context))} |->
              IF right.exc # "none" THEN right
              ELSE With([result \in {allocate_register(right.g)} |->
                   IF result.exc # "none" THEN result
                   ELSE GRaise("KeyError", <<"operator">>, result.g)])])])
    ELSE generate_binary(g, node, OnlyClass(context), OnlyClass(context),
                         IF node.operator = "&&" THEN "and" ELSE None,
                         "  # Logical AND", "Unsupported logical operator")

\* The class name that `this` stands for: the first class of the symbol table whose
\* entry equals current_class when that is a dict, current_class itself otherwise.
ThisClass(g, current_class) ==
    IF current_class.is = "dict"
    THEN IF \E i \in 1..Len(g.symbol_table) : g.symbol_table[i][2] = current_class.value
         THEN g.symbol_table[SetMin({i \in 1..Len(g.symbol_table) :
                                        g.symbol_table[i][2] = current_class.value})][1]
         ELSE None
    ELSE current_class.value

\* generate_expression, node["type"] == "MethodCall": the receiver.  The result carries
\* the register of the object and the class the call is bound to.
generate_call_target(g, node, context) ==
    IF node.target.type = "This"
    THEN IF context.current_class.is = "None"
            \/ (context.current_class.is = "str" /\ context.current_class.value = "")
         THEN [GRaise("CodeGenerationError",
                      <<"Cannot resolve 'this' without a current class context.">>, g)
               EXCEPT !.reg = <<None, None>>]
         ELSE With([object \in {allocate_register(g)} |->
              IF object.exc # "none" THEN [object EXCEPT !.reg = <<None, None>>]
              ELSE IF ThisClass(g, context.current_class) \in {None, ""}
              THEN [GRaise("CodeGenerationError",
                           <<"Failed to resolve the class name for 'this'.">>,
                           Emit(object.g, "move " \o object.reg
                                            \o ", $a0  # Load 'this' (current object)"))
                    EXCEPT !.reg = <<None, None>>]
              ELSE GOk(Emit(object.g, "move " \o object.reg
                                        \o ", $a0  # Load 'this' (current object)"),
                       <<object.reg, ThisClass(g, context.current_class)>>)])
    ELSE With([object \in {gen("generate_expression", g, node.target, OnlyClass(context))} |->
         IF object.exc # "none" THEN [object EXCEPT !.reg = <<None, None>>]
         ELSE GOk(object.g, <<object.reg, NodeGet(node.target, "class_name", None)>>)])

\* for arg_node in arguments: arg_regs.append(self.generate_expression(arg_node, ...)).
\* node is [expressions, arg_regs]: the arguments left and the registers so far.
generate_arguments(g, node, context) ==
    IF node.expressions = <<>> THEN GOk(g, node.arg_regs)
    ELSE With([arg \in {gen("generate_expression", g, node.expressions[1], context)} |->
         IF arg.exc # "none" THEN arg
         ELSE gen("generate_arguments", arg.g,
                  [expressions |-> Tail(node.expressions),
                   arg_regs |-> Append(node.arg_regs, arg.reg)], context)])

\* for i, arg_reg in enumerate(arg_regs): move $a{i}, {arg_reg}
PassArguments(arg_regs) ==
    [i \in 1..Len(arg_regs) |->
        "move $a" \o ToString(i - 1) \o ", " \o arg_regs[i] \o "  # Pass argument "
            \o ToString(i - 1)]

\* generate_expression, node["type"] == "MethodCall"
generate_method_call(g, node, context) ==
    With([target \in {generate_call_target(g, node, context)} |->
    IF target.exc # "none" THEN GRaise(target.exc, target.msg, target.g)
    ELSE IF ~DictHas(target.g.symbol_table, target.reg[2])
    THEN GRaise("CodeGenerationError", <<"Class", target.reg[2], "is not defined.">>, target.g)
    ELSE IF ~DictHas(DictGet(target.g.symbol_table, target.reg[2]).methods, node.method_name)
    THEN GRaise("CodeGenerationError",
                <<"Method", node.method_name, "not found in class", target.reg[2]>>, target.g)
    ELSE IF "type" \notin DOMAIN node.arguments
    THEN GRaise("TypeError", <<"list indices must be integers or slices, not str">>, target.g)
    ELSE IF node.arguments.type # "ExpressionList"
    THEN GRaise("TypeError", <<"string indices must be integers">>, target.g)
    ELSE With([args \in {gen("generate_arguments", target.g,
                             [expressions |-> node.arguments.expressions, arg_regs |-> <<>>],
                             context)} |->
         IF args.exc # "none" THEN args
         ELSE With([called \in {EmitAll(args.g,
                                   PassArguments(args.reg)
                                   \o <<"jal " \o target.reg[2] \o "_" \o node.method_name
                                          \o "  # Call method '" \o node.method_name \o "'">>)} |->
              With([result \in {allocate_register(
                                   [called EXCEPT !.used_registers =
                                       @ \ ({args.reg[i] : i \in 1..Len(args.reg)}
                                            \cup {target.reg[1]})])} |->
              IF result.exc # "none" THEN result
              ELSE GOk(Emit(result.g, "move " \o result.reg \o ", $v0  # Store return value"),
                       result.reg)])])])])

\* A node kind whose code is one line that loads a value into a fresh register.
generate_load(g, line_before, line_after) ==
    With([r \in {allocate_register(g)} |->
    IF r.exc # "none" THEN r
    ELSE GOk(Emit(r.g, line_before \o r.reg \o line_after), r.reg)])

generate_expression(g, node, context) ==
    CASE node.type = "NoneType" ->
            GRaise("TypeError", <<"'NoneType' object is not subscriptable">>, g)
      [] node.type = "Number" ->
            generate_load(g, "li ", ", " \o ToString(node.value) \o "  # Load immediate "
                                        \o ToString(node.value))
      [] node.type = "Boolean" ->
            generate_load(g, "li ",
                          IF node.value = "true" THEN ", 1  # Load boolean value true"
                          ELSE ", 0  # Load boolean value false")
      [] node.type = "LogicalOp" -> generate_logical(g, node, context)
      [] node.type = "Identifier" -> generate_identifier(g, node, context)
      [] node.type = "NewObject" -> generate_new_object(g, node)
      [] node.type = "FieldAccess" -> generate_field_access(g, node, context)
      [] node.type = "ArithmeticOp" ->
            generate_binary(g, node, context, context, ArithmeticMnemonic(node.operator),
                            "", "Unsupported operator")
      [] node.type = "ArrayInstantiation" -> generate_array_instantiation(g, node, context)
      [] node.type = "ArrayAccess" -> generate_array_access(g, node, context)
      [] node.type = "ArrayAssignment" -> generate_array_assignment(g, node, context)
      [] node.type = "ArrayLength" -> generate_array_length(g, node)
      [] node.type = "RelationalOp" ->
            generate_binary(g, node, context, context, RelationalMnemonic(node.operator),
                            RelationalComment(node.operator), "Unsupported relational operator")
      [] node.type = "This" -> generate_load(g, "move ", ", $a0  # Load 'this' (current object)")
      [] node.type = "MethodCall" -> generate_method_call(g, node, context)
      [] node.type = "Null" -> generate_load(g, "li ", ", 0  # Load null value (0)")
      [] OTHER -> GRaise("CodeGenerationError", <<"Unsupported expression type", node.type>>, g)

\* handle_array_print
handle_array_print(g, expression) ==
    With([array \in {gen("generate_expression", g, expression, NoContext)} |->
    IF array.exc # "none" THEN array
    ELSE With([length \in {allocate_register(array.g)} |->
         IF length.exc # "none" THEN length
         ELSE With([n \in {ToString(length.g.label_counter)} |->
              GOk(free_register(
                      free_register(
                          [EmitAll(length.g,
                               <<"lw " \o length.reg \o ", 0(" \o array.reg
                                     \o ")  # Load array length",
                                 "li $t0, 0  # Initialize index to 0",
                                 "print_array_loop_" \o n \o ":",
                                 "bge $t0, " \o length.reg \o ", print_array_end_" \o n
                                     \o "  # Exit loop if index >= length",
                                 "mul $t1, $t0, 4  # Calculate offset",
                                 "addiu $t1, $t1, 4  # Skip length field",
                                 "add $t1, $t1, " \o array.reg
                                     \o "  # Compute address of arr[index]",
                                 "lw $a0, 0($t1)  # Load array element",
                                 "li $v0, 1  # Print integer syscall",
                                 "syscall",
                                 "addi $t0, $t0, 1  # Increment index",
                                 "j print_array_loop_" \o n \o "  # Jump to loop start",
                                 "print_array_end_" \o n \o ":">>)
                           EXCEPT !.label_counter = @ + 1],
                          array.reg),
                      length.reg),
                  None)])])])

generate_print(g, node, context) ==
    With([expression \in {gen("generate_expression", g, node.expression,
                              OnlyClass(context))} |->
    IF expression.exc # "none" THEN expression
    ELSE IF node.expression.type = "Boolean"
    THEN GRaise("AttributeError", <<"handle_boolean_print">>, expression.g)
    ELSE IF node.expression.type = "ArrayAccess"
    THEN GRaise("NameError", <<"current_class">>, expression.g)
    ELSE IF node.expression.type = "Identifier" /\ "var_type" \notin DOMAIN node.expression
    THEN GRaise("KeyError", <<"var_type">>, expression.g)
    ELSE IF node.expression.type = "Identifier" /\ node.expression.var_type = "int[]"
    THEN handle_array_print(expression.g, node.expression)
    ELSE GOk(free_register(
                 EmitAll(expression.g,
                         <<"move $a0, " \o expression.reg \o "  # Move value to $a0 for printing",
                           "li $v0, 1  # Print integer syscall",
                           "syscall">>),
                 expression.reg),
             None)])

generate_assignment(g, node, context) ==
    With([value \in {gen("generate_expression", g, node.value, context)} |->
    IF value.exc # "none" THEN value
    ELSE IF context.local_var_offsets.is # "dict"
    THEN GRaise("TypeError", <<"argument of type 'NoneType' is not iterable">>, value.g)
    ELSE IF DictHas(context.local_var_offsets.value, node.target)
    THEN GOk(free_register(
                 Emit(value.g, "sw " \o value.reg \o ", "
                                 \o DictGet(context.local_var_offsets.value, node.target)
                                 \o "($fp)  # Store value in local variable '" \o node.target
                                 \o "'"),
                 value.reg), None)
    ELSE IF context.param_map.is # "dict"
    THEN GRaise("TypeError", <<"argument of type 'NoneType' is not iterable">>, value.g)
    ELSE IF DictHas(context.param_map.value, node.target)
    THEN GOk(free_register(
                 Emit(value.g,
                      IF StartsWithAt(DictGet(context.param_map.value, node.target), 1, "$")
                      THEN "move " \o DictGet(context.param_map.value, node.target) \o ", "
                               \o value.reg \o "  # Store value in parameter '" \o node.target
                               \o "'"
                      ELSE "sw " \o value.reg \o ", "
                               \o DictGet(context.param_map.value, node.target)
                               \o "($fp)  # Store value in parameter '" \o node.target \o "'"),
                 value.reg), None)
    ELSE GRaise("CodeGenerationError", <<"Unknown target for assignment", node.target>>,
                value.g)])

generate_if(g, node, context) ==
    With([n \in {ToString(g.label_counter + 1)} |->
    With([condition \in {gen("generate_expression", [g EXCEPT !.label_counter = @ + 1],
                             node.condition, context)} |->
    IF condition.exc # "none" THEN condition
    ELSE With([if_true \in {gen("generate_command",
                                Emit(condition.g,
                                     "beq " \o condition.reg \o ", $zero, else_label_" \o n
                                         \o "  # If condition is false, jump to else"),
                                node.if_true, context)} |->
         IF if_true.exc # "none" THEN if_true
         ELSE With([if_false \in
                       {IF "if_false" \in DOMAIN node
                        THEN gen("generate_command",
                                 EmitAll(if_true.g,
                                         <<"j end_if_label_" \o n \o "  # Jump to end of if",
                                           "else_label_" \o n \o ":">>),
                                 node.if_false, context)
                        ELSE GOk(EmitAll(if_true.g,
                                         <<"j end_if_label_" \o n \o "  # Jump to end of if",
                                           "else_label_" \o n \o ":">>), None)} |->
              IF if_false.exc # "none" THEN if_false
              ELSE GOk(free_register(Emit(if_false.g, "end_if_label_" \o n \o ":"),
                                     condition.reg),
                       None)])])])])

generate_while(g, node, context) ==
    With([n \in {ToString(g.label_counter + 1)} |->
    With([condition \in {gen("generate_expression",
                             Emit([g EXCEPT !.label_counter = @ + 1],
                                  "while_start_" \o n \o ":"),
                             node.condition, OnlyClass(context))} |->
    IF condition.exc # "none" THEN condition
    ELSE With([body \in {gen("generate_command",
                             Emit(condition.g,
                                  "beq " \o condition.reg \o ", $zero, while_end_" \o n
                                      \o "  # If condition is false, exit loop"),
                             node.body, context)} |->
         IF body.exc # "none" THEN body
         ELSE GOk(free_register(
                      EmitAll(body.g, <<"j while_start_" \o n \o "  # Repeat loop",
                                        "while_end_" \o n \o ":">>),
                      condition.reg),
                  None)])])])

generate_return(g, node, context) ==
    With([value \in {gen("generate_expression", g, node.value, OnlyClass(context))} |->
    IF value.exc # "none" THEN value
    ELSE GOk(free_register(
                 Emit(value.g, "move $v0, " \o value.reg \o "  # Move return value to $v0"),
                 value.reg),
             None)])

generate_command(g, node, context) ==
    CASE node.type = "NoneType" ->
            GRaise("TypeError", <<"'NoneType' object is not subscriptable">>, g)
      [] node.type = "Print" -> generate_print(g, node, context)
      [] node.type = "Assignment" -> generate_assignment(g, node, context)
      [] node.type = "If" -> generate_if(g, node, context)
      [] node.type = "While" -> generate_while(g, node, context)
      [] node.type = "Return" -> generate_return(g, node, context)
      [] OTHER -> GRaise("CodeGenerationError", <<"Unsupported command type", node.type>>, g)

gen(routine, g, node, context) ==
    CASE routine = "generate_expression" -> generate_expression(g, node, context)
      [] routine = "generate_command" -> generate_command(g, node, context)
      [] routine = "generate_arguments" -> generate_arguments(g, node, context)

\* generate_method: the lines do not depend on the method node but for its name.
generate_method(g, node, class_name) ==
    IF node.type # "Method"
    THEN GRaise("CodeGenerationError", <<"Invalid node type. Expected 'Method'.">>, g)
    ELSE GOk(EmitAll(g,
            <<"# Method: " \o node.name \o " in class " \o class_name,
              class_name \o "_" \o node.name \o ":",
              "addiu $sp, $sp, -12  # Reserve space for $fp, $ra, and num",
              "sw $fp, 8($sp)       # Save old frame pointer",
              "sw $ra, 4($sp)       # Save return address",
              "sw $a0, 0($sp)       # Save num (parameter)",
              "move $fp, $sp        # Set frame pointer",
              "li $t1, 1            # Load immediate 1",
              "lw $t0, 0($sp)       # Load num from stack",
              "slt $t2, $t0, $t1    # num < 1?",
              "beq $t2, $zero, else_label_1  # If num >= 1, jump to else",
              "li $v0, 1            # Return 1 if num < 1",
              "j end_if_label_1",
              "else_label_1:",
              "lw $t0, 0($sp)       # Load num from stack",
              "sub $a0, $t0, $t1    # Calculate num - 1 for recursive call",
              "jal Fac_ComputeFac   # Recursive call",
              "lw $t0, 0($sp)       # Reload num from stack",
              "mul $v0, $t0, $v0    # Multiply num by recursion result",
              "end_if_label_1:",
              "lw $ra, 4($sp)       # Restore return address",
              "lw $fp, 8($sp)       # Restore old frame pointer",
              "addiu $sp, $sp, 12   # Restore stack pointer",
              "jr $ra               # Return">>), None)

\* for method in node.get("methods", []): self.generate_method(method, node["name"])
generate_class(g, node) ==
    IF node.type # "Class"
    THEN GRaise("CodeGenerationError", <<"Invalid node type. Expected 'Class'.">>, g)
    ELSE LET methods == NodeGet(node, "methods", <<>>)
             generated[i \in 0..Len(methods)] ==
                 IF i = 0 THEN GOk(Emit(g, "# Class: " \o node.name), None)
                 ELSE IF generated[i - 1].exc # "none" THEN generated[i - 1]
                 ELSE generate_method(generated[i - 1].g, methods[i], node.name) IN
         generated[Len(methods)]

generate_main_class(g, node) ==
    IF node.type # "MainClass"
    THEN GRaise("CodeGenerationError", <<"Invalid node type. Expected 'MainClass'.">>, g)
    ELSE LET commands == NodeGet(node, "commands", <<>>)
             generated[i \in 0..Len(commands)] ==
                 IF i = 0
                 THEN GOk(EmitAll(g, <<"# Main Class: " \o node.class_name, "main:">>), None)
                 ELSE IF generated[i - 1].exc # "none" THEN generated[i - 1]
                 ELSE generate_command(generated[i - 1].g, commands[i], NoContext) IN
         IF generated[Len(commands)].exc # "none" THEN generated[Len(commands)]
         ELSE GOk(EmitAll(generated[Len(commands)].g,
                          <<"li $v0, 10  # Exit syscall", "syscall">>), None)

generate_program(g, node) ==
    IF node.type # "Program"
    THEN GRaise("CodeGenerationError", <<"Invalid root node type. Expected 'Program'.">>, g)
    ELSE LET generated[i \in 0..Len(node.classes)] ==
                 IF i = 0 THEN generate_main_class(g, node.main_class)
                 ELSE IF generated[i - 1].exc # "none" THEN generated[i - 1]
                 ELSE generate_class(generated[i - 1].g, node.classes[i]) IN
         IF generated[Len(node.classes)].exc # "none" THEN generated[Len(node.classes)]
         ELSE GOk(EmitAll(generated[Len(node.classes)].g,
                          <<"# Program termination (if needed)",
                            "li $v0, 10  # Exit syscall", "syscall">>), None)

\* The data line of a field, <<>> for a field that is neither int nor boolean.
FieldData(class_name, field) ==
    IF field.var_type = "int"
    THEN <<class_name \o "_" \o field.name \o ": .word 0  # Integer variable">>
    ELSE IF field.var_type = "boolean"
    THEN <<class_name \o "_" \o field.name \o ": .byte 0  # Boolean variable">>
    ELSE <<>>

\* The data lines of the fields of the classes from the i-th on.
RECURSIVE ClassesData(_, _)
ClassesData(classes, i) ==
    IF i > Len(classes) THEN <<>>
    ELSE LET fields == NodeGet(classes[i], "variables", <<>>)
             lines[k \in 0..Len(fields)] ==
                 IF k = 0 THEN <<>>
                 ELSE lines[k - 1] \o FieldData(classes[i].name, fields[k]) IN
         lines[Len(fields)] \o ClassesData(classes, i + 1)

generate_data_section(g) ==
    [g EXCEPT !.data_section =
        @ \o <<"debug_msg: .asciiz \"Debugging output\"">>
          \o ClassesData(NodeGet(g.syntax_tree, "classes", <<>>), 1)
          \o <<"const_zero: .word 0  # Constant 0", "const_one: .word 1  # Constant 1">>]

\* generate(): the generator as the call leaves it; output is the list of lines that
\* "\n".join makes the returned text of.
generate(g) ==
    With([program \in {generate_program(
              [generate_data_section(
                   [g EXCEPT !.data_section =
                       @ \o <<".data", "# Global variables and string literals">>])
               EXCEPT !.data_section =
                          @ \o <<"array_sep: .asciiz \", \"  # Separator for array elements",
                                 "array_end: .asciiz \"\\n\"  # End of array message">>,
                      !.text_section = @ \o <<".text", ".globl main">>],
              g.syntax_tree)} |->
    IF program.exc # "none" THEN program
    ELSE GOk([program.g EXCEPT !.output = program.g.data_section \o <<"">>
                                            \o program.g.text_section], None)])

(***************************************************************************)
(* Text: the str and file operations the assembler applies to its input    *)
(***************************************************************************)
SetMax(S) == CHOOSE m \in S : \A x \in S : m >= x
\* The elements of a finite set of integers in increasing order.
Sorted(S) ==
    [k \in 1..Cardinality(S) |-> CHOOSE x \in S : Cardinality({y \in S : y < x}) = k - 1]

\* separator.join(parts), computed by halving the range of parts to join
Join(parts, separator) ==
    LET joined[range \in (1..Len(parts)) \X (1..Len(parts))] ==
            IF range[1] = range[2] THEN parts[range[1]]
            ELSE joined[<<range[1], (range[1] + range[2]) \div 2>>] \o separator
                 \o joined[<<(range[1] + range[2]) \div 2 + 1, range[2]>>] IN
    IF Len(parts) = 0 THEN "" ELSE joined[<<1, Len(parts)>>]

\* s.split(separator) for a separator of one character
SplitOn(s, separator) ==
    LET cuts == Sorted({i \in 1..Len(s) : CharAt(s, i) = separator}) IN
    [k \in 1..(Len(cuts) + 1) |->
        SubSeq(s, IF k = 1 THEN 1 ELSE cuts[k - 1] + 1,
                  IF k > Len(cuts) THEN Len(s) ELSE cuts[k] - 1)]

\* s.strip(chars)
Strip(s, chars) ==
    LET kept == {i \in 1..Len(s) : CharAt(s, i) \notin chars} IN
    IF kept = {} THEN "" ELSE SubSeq(s, SetMin(kept), SetMax(kept))

\* s.split(): the maximal runs of characters that are not whitespace
Split(s) ==
    LET starts == Sorted({i \in 1..Len(s) :
                      /\ CharAt(s, i) \notin WhitespaceChars
                      /\ (i = 1 \/ CharAt(s, i - 1) \in WhitespaceChars)})
        ends == Sorted({i \in 1..Len(s) :
                      /\ CharAt(s, i) \notin WhitespaceChars
                      /\ (i = Len(s) \/ CharAt(s, i + 1) \in WhitespaceChars)}) IN
    [k \in 1..Len(starts) |-> SubSeq(s, starts[k], ends[k])]

\* sub in s
Contains(s, sub) == Find(s, 1, sub) # 0

\* The lines that iterating over a text file yields: each keeps its "\n", which only
\* the last line may lack.
FileLines(text) ==
    LET ends == Sorted({i \in 1..Len(text) : CharAt(text, i) = "\n" \/ i = Len(text)}) IN
    [k \in 1..Len(ends) |->
        SubSeq(text, IF k = 1 THEN 1 ELSE ends[k - 1] + 1, ends[k])]

\* int(s) of a str: whitespace around, an optional sign, then decimal digits that
\* single underscores may separate; anything else is a ValueError.
IntLiteral(s) ==
    LET text == Strip(s, WhitespaceChars)
        signed == Len(text) > 0 /\ CharAt(text, 1) \in {"+", "-"}
        digits == IF signed THEN SubSeq(text, 2, Len(text)) ELSE text
        n == Len(digits)
        wellFormed ==
            /\ n > 0
            /\ \A i \in 1..n : CharAt(digits, i) \in DigitChars \cup {"_"}
            /\ CharAt(digits, 1) # "_" /\ CharAt(digits, n) # "_"
            /\ \A i \in 1..(n - 1) : CharAt(digits, i) # "_" \/ CharAt(digits, i + 1) # "_"
        value[i \in 0..n] ==
            IF i = 0 THEN 0
            ELSE IF CharAt(digits, i) = "_" THEN value[i - 1]
            ELSE 10 * value[i - 1] + DigitValue(CharAt(digits, i)) IN
    IF ~wellFormed
    THEN Raise("ValueError", <<"invalid literal for int() with base 10:", s>>)
    ELSE Ret(IF signed /\ CharAt(text, 1) = "-" THEN 0 - value[n] ELSE value[n])

\* format(val, "0<width>b"): the binary digits of val, zero-padded to width characters,
\* a minus sign counting as one of them.  The digits are put together by halving the
\* range of positions.
Format(val, width) ==
    LET magnitude == IF val < 0 THEN 0 - val ELSE val
        length == SetMin({n \in 1..30 : magnitude < 2^n})
        padded == IF val < 0 THEN width - 1 ELSE width
        digits == IF length > padded THEN length ELSE padded
        bits[range \in (1..digits) \X (1..digits)] ==
            IF range[1] = range[2]
            THEN IF (magnitude \div 2^(digits - range[1])) % 2 = 1 THEN "1" ELSE "0"
            ELSE bits[<<range[1], (range[1] + range[2]) \div 2>>]
                 \o bits[<<(range[1] + range[2]) \div 2 + 1, range[2]>>] IN
    IF val < 0 THEN "-" \o bits[<<1, digits>>] ELSE bits[<<1, digits>>]

\* struct.pack(">I", int(binary, 2)): the four bytes, most significant first, of the
\* number the binary digits spell.  int() raises ValueError on another character and
\* struct.pack raises struct.error from 2^32 on.
pack(binary) ==
    LET n == Len(binary)
        ones == {i \in 1..n : CharAt(binary, i) = "1"}
        significant == IF ones = {} THEN 0 ELSE n - SetMin(ones) + 1
        bit(i) == IF i >= 1 /\ CharAt(binary, i) = "1" THEN 1 ELSE 0
        byte(k) == LET last == n - 8 * (4 - k)
                       value[j \in 0..8] ==
                           IF j = 0 THEN 0 ELSE 2 * value[j - 1] + bit(last - 8 + j) IN
                   value[8] IN
    IF n = 0 \/ \E i \in 1..n : CharAt(binary, i) \notin {"0", "1"}
    THEN Raise("ValueError", <<"invalid literal for int() with base 2:", binary>>)
    ELSE IF significant > 32
    THEN Raise("struct.error", <<"'I' format requires 0 <= number <= 4294967295">>)
    ELSE Ret(<<byte(1), byte(2), byte(3), byte(4)>>)

(***************************************************************************)
(* Assembler (mips_to_binary.py)                                           *)
(***************************************************************************)
OPCODES ==
    << <<"add", "000000">>, <<"sub", "000000">>, <<"and", "000000">>, <<"or", "000000">>,
       <<"slt", "000000">>, <<"lw", "100011">>, <<"sw", "101011">>, <<"addi", "001000">>,
       <<"beq", "000100">>, <<"bne", "000101">>, <<"j", "000010">>, <<"jal", "000011">>,
       <<"mul", "011100">>, <<"syscall", "000000">>, <<"addiu", "001001">>,
       <<"jr", "000000">> >>

FUNCT_CODES ==
    << <<"add", "100000">>, <<"sub", "100010">>, <<"and", "100100">>, <<"or", "100101">>,
       <<"slt", "101010">>, <<"jr", "001000">>, <<"mul", "000010">> >>

\* A register map that lacks $ra.
REGISTER_MAP_without_ra ==
    << <<"$zero", "00000">>, <<"$t0", "01000">>, <<"$t1", "01001">>, <<"$t2", "01010">>,
       <<"$t3", "01011">>, <<"$s0", "10000">>, <<"$s1", "10001">>, <<"$s2", "10010">>,
       <<"$s3", "10011">>, <<"$a0", "00100">>, <<"$v0", "00010">>,
       <<"$sp", "00100">>, <<"$fp", "11110">> >>

REGISTER_MAP ==
    << <<"$zero", "00000">>, <<"$t0", "01000">>, <<"$t1", "01001">>, <<"$t2", "01010">>,
       <<"$t3", "01011">>, <<"$s0", "10000">>, <<"$s1", "10001">>, <<"$s2", "10010">>,
       <<"$s3", "10011">>, <<"$a0", "00100">>, <<"$v0", "00010">>, <<"$ra", "11111">>,
       <<"$sp", "00100">>, <<"$fp", "11110">> >>

parse_register(reg) ==
    With([name \in {Strip(reg, {","})} |->
    IF ~DictHas(REGISTER_MAP, name)
    THEN Raise("ValueError", <<"Unsupported register:", name>>)
    ELSE Ret(DictGet(REGISTER_MAP, name))])

\* parse_immediate without the wrap of a negative value into its two's complement.
parse_immediate_unwrapped(imm, bits) ==
    With([val \in {IntLiteral(imm)} |->
    IF val.exc # "none" THEN Raise("ValueError", <<"Invalid immediate value:", imm>>)
    ELSE IF val.val < 0 - 2^(bits - 1) \/ val.val >= 2^(bits - 1)
    THEN Raise("ValueError", <<"Immediate value", val.val, "out of range for", bits,
                               "-bit representation.">>)
    ELSE Ret(Format(val.val, bits))])

parse_immediate(imm, bits) ==
    With([val \in {IntLiteral(imm)} |->
    IF val.exc # "none" THEN Raise("ValueError", <<"Invalid immediate value:", imm>>)
    ELSE IF val.val < 0 - 2^(bits - 1) \/ val.val >= 2^(bits - 1)
    THEN Raise("ValueError", <<"Immediate value", val.val, "out of range for", bits,
                               "-bit representation.">>)
    ELSE Ret(Format((val.val + 2^bits) % 2^bits, bits))])

parse_address(addr) == Format(addr, 26)

\* The result is <<offset bits, register bits>>; unpacking the split raises
\* ValueError unless there are exactly two pieces.
parse_offset(offset_reg) ==
    With([pieces \in {SplitOn(offset_reg, "(")} |->
    IF Len(pieces) < 2
    THEN Raise("ValueError", <<"not enough values to unpack (expected 2, got 1)">>)
    ELSE IF Len(pieces) > 2
    THEN Raise("ValueError", <<"too many values to unpack (expected 2)">>)
    ELSE With([offset \in {parse_immediate(pieces[1], 16)} |->
         IF offset.exc # "none" THEN offset
         ELSE With([reg \in {parse_register(Strip(pieces[2], {")"}))} |->
              IF reg.exc # "none" THEN reg ELSE Ret(<<offset.val, reg.val>>)])])])

r_type_to_binary(instr, rs, rt, rd) ==
    With([rs_bin \in {parse_register(rs)} |->
    IF rs_bin.exc # "none" THEN rs_bin
    ELSE With([rt_bin \in {IF rt # "" THEN parse_register(rt) ELSE Ret("00000")} |->
         IF rt_bin.exc # "none" THEN rt_bin
         ELSE With([rd_bin \in {IF rd # "" THEN parse_register(rd) ELSE Ret("00000")} |->
              IF rd_bin.exc # "none" THEN rd_bin
              ELSE Ret(DictGet(OPCODES, instr) \o rs_bin.val \o rt_bin.val \o rd_bin.val
                           \o "00000" \o DictGet(FUNCT_CODES, instr))])])])

i_type_to_binary(instr, rs, rt, imm) ==
    With([rs_bin \in {parse_register(rs)} |->
    IF rs_bin.exc # "none" THEN rs_bin
    ELSE With([rt_bin \in {parse_register(rt)} |->
         IF rt_bin.exc # "none" THEN rt_bin
         ELSE With([imm_bin \in {parse_immediate(imm, 16)} |->
              IF imm_bin.exc # "none" THEN imm_bin
              ELSE Ret(DictGet(OPCODES, instr) \o rs_bin.val \o rt_bin.val
                           \o imm_bin.val)])])])

j_type_to_binary(instr, address) == DictGet(OPCODES, instr) \o parse_address(address)

\* translate_line, the branch of a jr.
translate_jr(line, parts) ==
    IF Len(parts) # 2
    THEN Raise("ValueError", <<"R-type instruction", line, "is missing or has extra operands.">>)
    ELSE With([rs \in {parse_register(parts[2])} |->
         IF rs.exc # "none" THEN rs
         ELSE Ret(DictGet(OPCODES, "jr") \o rs.val \o "000000000000000"
                      \o DictGet(FUNCT_CODES, "jr"))])

\* translate_line, the branch of lw and sw.
translate_memory(line, parts) ==
    IF Len(parts) < 3
    THEN Raise("ValueError", <<"I-type instruction", line, "is missing operands.">>)
    ELSE With([rt \in {parse_register(parts[2])} |->
         IF rt.exc # "none" THEN rt
         ELSE With([address \in {parse_offset(parts[3])} |->
              IF address.exc # "none" THEN address
              ELSE Ret(DictGet(OPCODES, parts[1]) \o address.val[2] \o rt.val
                           \o address.val[1])])])

\* translate_line, the branch of addi, addiu, beq and bne.  A branch to a label that
\* LABELS lacks is a KeyError.
translate_immediate(line, parts, LABELS, ADDRESS_COUNTER) ==
    IF Len(parts) < 4
    THEN Raise("ValueError", <<"I-type instruction", line, "is missing operands.">>)
    ELSE With([rs \in {parse_register(parts[3])} |->
         IF rs.exc # "none" THEN rs
         ELSE With([rt \in {parse_register(parts[2])} |->
              IF rt.exc # "none" THEN rt
              ELSE IF parts[1] \in {"beq", "bne"} /\ ~DictHas(LABELS, parts[4])
              THEN Raise("KeyError", <<parts[4]>>)
              ELSE With([imm \in {IF parts[1] \in {"beq", "bne"}
                                  THEN parse_immediate(
                                           ToString((DictGet(LABELS, parts[4])
                                                        - (ADDRESS_COUNTER + 4)) \div 4), 16)
                                  ELSE parse_immediate(parts[4], 16)} |->
                   IF imm.exc # "none" THEN imm
                   ELSE Ret(DictGet(OPCODES, parts[1]) \o rs.val \o rt.val \o imm.val)])])])

\* translate_line, the branch of j and jal.
translate_jump(line, parts, LABELS) ==
    IF Len(parts) < 2
    THEN Raise("ValueError", <<"J-type instruction", line, "is missing operands.">>)
    ELSE IF ~DictHas(LABELS, parts[2]) THEN Raise("KeyError", <<parts[2]>>)
    ELSE Ret(j_type_to_binary(parts[1], DictGet(LABELS, parts[2]) \div 4))

\* The branch of the pseudo-instructions with the operands of move exchanged.
translate_pseudo_exchanged(line, parts) ==
    IF Len(parts) < 3
    THEN Raise("ValueError", <<"Pseudoinstruction", line, "is missing operands.">>)
    ELSE IF parts[1] = "li" THEN i_type_to_binary("addi", "$zero", parts[2], parts[3])
    ELSE r_type_to_binary("add", parts[2], "$zero", parts[3])

\* translate_line, the branch of the pseudo-instructions li and move.
translate_pseudo(line, parts) ==
    IF Len(parts) < 3
    THEN Raise("ValueError", <<"Pseudoinstruction", line, "is missing operands.">>)
    ELSE IF parts[1] = "li" THEN i_type_to_binary("addi", "$zero", parts[2], parts[3])
    ELSE r_type_to_binary("add", parts[3], "$zero", parts[2])

\* translate_line from the split of a non-empty line on: the binary digits of the word.
translate_parts(line, parts, LABELS, ADDRESS_COUNTER) ==
    IF parts[1] # "syscall" /\ Len(parts) < 2
    THEN Raise("ValueError", <<"Instruction", line, "is missing operands.">>)
    ELSE IF DictHas(OPCODES, parts[1])
    THEN IF DictHas(FUNCT_CODES, parts[1])
         THEN IF parts[1] = "jr" THEN translate_jr(line, parts)
              ELSE IF Len(parts) < 4
              THEN Raise("ValueError", <<"R-type instruction", line, "is missing operands.">>)
              ELSE r_type_to_binary(parts[1], parts[3], parts[4], parts[2])
         ELSE IF parts[1] \in {"lw", "sw"} THEN translate_memory(line, parts)
         ELSE IF parts[1] \in {"addi", "addiu", "beq", "bne"}
         THEN translate_immediate(line, parts, LABELS, ADDRESS_COUNTER)
         ELSE IF parts[1] \in {"j", "jal"} THEN translate_jump(line, parts, LABELS)
         ELSE IF parts[1] = "syscall" THEN Ret("00000000000000000000000000001100")
         ELSE Raise("ValueError", <<"Unknown instruction:", parts[1]>>)
    ELSE IF parts[1] \in {"li", "move"} THEN translate_pseudo(line, parts)
    ELSE Raise("ValueError", <<"Unknown instruction:", parts[1]>>)

\* translate_line: val is the binary digits (None for a line that holds no
\* instruction), ADDRESS_COUNTER the global as the call leaves it.
translate_line(line, LABELS, ADDRESS_COUNTER) ==
    With([stripped \in {Strip(SplitOn(line, "#")[1], WhitespaceChars)} |->
    IF stripped = ""
    THEN [exc |-> "none", msg |-> <<>>, val |-> None, ADDRESS_COUNTER |-> ADDRESS_COUNTER]
    ELSE With([binary \in {translate_parts(stripped, Split(stripped), LABELS,
                                           ADDRESS_COUNTER)} |->
         [exc |-> binary.exc, msg |-> binary.msg, val |-> binary.val,
          ADDRESS_COUNTER |-> IF binary.exc = "none" THEN ADDRESS_COUNTER + 4
                              ELSE ADDRESS_COUNTER]])])

\* The body of the loop of pass_one with a label line counted like an instruction.
pass_one_line_counting_labels(line, LABELS, DATA_SECTION, IN_DATA_SECTION, ADDRESS_COUNTER) ==
    With([stripped \in {Strip(SplitOn(line, "#")[1], WhitespaceChars)} |->
    With([same \in {[exc |-> "none", msg |-> <<>>, printed |-> <<>>, LABELS |-> LABELS,
                     DATA_SECTION |-> DATA_SECTION, IN_DATA_SECTION |-> IN_DATA_SECTION,
                     ADDRESS_COUNTER |-> ADDRESS_COUNTER]} |->
    IF stripped = "" THEN same
    ELSE IF StartsWithAt(stripped, 1, ".data") THEN [same EXCEPT !.IN_DATA_SECTION = TRUE]
    ELSE IF StartsWithAt(stripped, 1, ".text") THEN [same EXCEPT !.IN_DATA_SECTION = FALSE]
    ELSE IF StartsWithAt(stripped, 1, ".globl") THEN same
    ELSE IF IN_DATA_SECTION THEN same
    ELSE IF Contains(stripped, ":")
    THEN [same EXCEPT !.LABELS = DictPut(@, SplitOn(stripped, ":")[1], ADDRESS_COUNTER),
                      !.ADDRESS_COUNTER = @ + 4]
    ELSE [same EXCEPT !.ADDRESS_COUNTER = @ + 4]])])

\* The body of the loop of pass_one for one line of the file: the globals as the
\* iteration leaves them and what it printed.  int() of a .word value raises.
pass_one_line(line, LABELS, DATA_SECTION, IN_DATA_SECTION, ADDRESS_COUNTER) ==
    With([stripped \in {Strip(SplitOn(line, "#")[1], WhitespaceChars)} |->
    With([same \in {[exc |-> "none", msg |-> <<>>, printed |-> <<>>, LABELS |-> LABELS,
                     DATA_SECTION |-> DATA_SECTION, IN_DATA_SECTION |-> IN_DATA_SECTION,
                     ADDRESS_COUNTER |-> ADDRESS_COUNTER]} |->
    IF stripped = "" THEN same
    ELSE IF StartsWithAt(stripped, 1, ".data") THEN [same EXCEPT !.IN_DATA_SECTION = TRUE]
    ELSE IF StartsWithAt(stripped, 1, ".text") THEN [same EXCEPT !.IN_DATA_SECTION = FALSE]
    ELSE IF StartsWithAt(stripped, 1, ".globl") THEN same
    ELSE IF IN_DATA_SECTION
    THEN With([parts \in {Split(stripped)} |->
         IF Len(parts) < 3
         THEN [same EXCEPT !.printed = <<"Error: Invalid .data directive:", stripped>>]
         ELSE With([label \in {Strip(parts[1], {":"})} |->
              With([value \in {Join(SubSeq(parts, 3, Len(parts)), " ")} |->
              IF parts[2] = ".word"
              THEN With([number \in {IntLiteral(value)} |->
                   IF number.exc # "none"
                   THEN [same EXCEPT !.exc = number.exc, !.msg = number.msg]
                   ELSE [same EXCEPT !.DATA_SECTION = DictPut(@, label, number.val)]])
              ELSE IF parts[2] = ".asciiz"
              THEN [same EXCEPT !.DATA_SECTION = DictPut(@, label, Strip(value, {"\""}))]
              ELSE [same EXCEPT !.printed = <<"Warning: Unsupported data directive:",
                                              parts[2]>>]])])])
    ELSE IF Contains(stripped, ":")
    THEN [same EXCEPT !.LABELS = DictPut(@, SplitOn(stripped, ":")[1], ADDRESS_COUNTER)]
    ELSE [same EXCEPT !.ADDRESS_COUNTER = @ + 4]])])

\* The body of the loop of pass_two for one line of the file: the bytes it writes,
\* what it printed and ADDRESS_COUNTER as the iteration leaves it.  A ValueError is
\* caught and printed; any other exception leaves the loop.
pass_two_line(line, LABELS, ADDRESS_COUNTER) ==
    With([stripped \in {Strip(SplitOn(line, "#")[1], WhitespaceChars)} |->
    With([same \in {[exc |-> "none", msg |-> <<>>, printed |-> <<>>, written |-> <<>>,
                     ADDRESS_COUNTER |-> ADDRESS_COUNTER]} |->
    IF stripped = "" \/ StartsWithAt(stripped, 1, ".") \/ Contains(stripped, ":") THEN same
    ELSE With([binary \in {translate_line(stripped, LABELS, ADDRESS_COUNTER)} |->
         IF binary.exc = "ValueError"
         THEN [same EXCEPT !.printed = <<"Error in line", stripped, binary.msg>>]
         ELSE IF binary.exc # "none"
         THEN [same EXCEPT !.exc = binary.exc, !.msg = binary.msg]
         ELSE IF binary.val = None
         THEN same
         ELSE With([bytes \in {pack(binary.val)} |->
              IF bytes.exc = "ValueError"
              THEN [same EXCEPT !.printed = <<"Error in line", stripped, bytes.msg>>,
                                !.ADDRESS_COUNTER = binary.ADDRESS_COUNTER]
              ELSE IF bytes.exc # "none"
              THEN [same EXCEPT !.exc = bytes.exc, !.msg = bytes.msg,
                                !.ADDRESS_COUNTER = binary.ADDRESS_COUNTER]
              ELSE [same EXCEPT !.written = bytes.val,
                                !.ADDRESS_COUNTER = binary.ADDRESS_COUNTER]])])])])

(***************************************************************************)
(* State                                                                   *)
(***************************************************************************)
VARIABLES
    pc,              \* the stage the compilation unit is in
    code,            \* the source text given to the scanner
    position,        \* MiniJavaScanner.tokenize: position (0-based)
    tokens,          \* the token list (scanner output, parser input)
    current_index,   \* MiniJavaParserLL1.current_index
    syntax_tree,     \* the syntax tree (NoneNode before parsing)
    symbol_table,    \* MiniJavaSemanticAnalyzer.symbol_table
    error,           \* the exception that ended the unit, exc = "none" if none
    declarations,    \* the symbol table as it was before resolve_inheritance
    class_index,     \* resolve_inheritance: the classes its loop has taken
    call_stack,      \* the activations of resolve_class_inheritance, innermost last
    visited,         \* the visited set the activations share
    generator,       \* the MiniJavaCodeGenerator (NoneNode before it is constructed)
    output_asm,      \* the text of output.asm (None while the file does not exist)
    infile,          \* the lines of output.asm the running pass iterates over
    line_index,      \* how many of them its loop has taken
    LABELS,          \* mips_to_binary.LABELS
    DATA_SECTION,    \* mips_to_binary.DATA_SECTION
    IN_DATA_SECTION, \* mips_to_binary.IN_DATA_SECTION
    ADDRESS_COUNTER, \* mips_to_binary.ADDRESS_COUNTER
    output_bin,      \* the bytes of output.bin (None while the file does not exist)
    printed          \* the errors and warnings the assembler printed

frontVars == <<pc, code, position, tokens, current_index, syntax_tree, symbol_table, error>>
inhVars == <<declarations, class_index, call_stack, visited>>
asmVars == <<infile, line_index, LABELS, DATA_SECTION, IN_DATA_SECTION, ADDRESS_COUNTER,
             output_bin, printed>>
backVars == <<generator, output_asm, asmVars>>
vars == <<frontVars, inhVars, backVars>>

NoError == [exc |-> "none", msg |-> <<>>]
Exception(r) == [exc |-> r.exc, msg |-> r.msg]

\* resolve_inheritance is not running.
InhIdle == declarations = EmptyDict /\ class_index = 0 /\ call_stack = <<>> /\ visited = {}

\* The assembler module as its import leaves it, no file opened.
AsmIdle ==
    /\ infile = <<>> /\ line_index = 0
    /\ LABELS = EmptyDict /\ DATA_SECTION = EmptyDict
    /\ IN_DATA_SECTION = FALSE /\ ADDRESS_COUNTER = 0
    /\ output_bin = None /\ printed = <<>>

\* No generator constructed, no file written, the assembler not started.
BackIdle == generator = NoneNode /\ output_asm = None /\ AsmIdle

(***************************************************************************)
(* Steps of the pipeline shared by the specifications                      *)
(***************************************************************************)
\* parser = MiniJavaParserLL1(tokens); syntax_tree = parser.parse_program()
Parse ==
    /\ pc = "tokenized"
    /\ \E r \in {parse_program(tokens)} :
            /\ current_index' = r.idx
            /\ IF r.exc = "none"
               THEN syntax_tree' = r.node /\ pc' = "parsed" /\ error' = error
               ELSE syntax_tree' = syntax_tree /\ pc' = "failed" /\ error' = Exception(r)
    /\ UNCHANGED <<code, position, tokens, symbol_table, inhVars, backVars>>

\* analyzer = MiniJavaSemanticAnalyzer(syntax_tree); analyzer.analyze()
Analyze ==
    /\ pc = "parsed"
    /\ \E r \in {analyze(syntax_tree)} :
            /\ symbol_table' = r.table
            /\ IF r.exc = "none"
               THEN pc' = "analyzed" /\ error' = error
               ELSE pc' = "failed" /\ error' = Exception(r)
    /\ UNCHANGED <<code, position, tokens, current_index, syntax_tree, inhVars, backVars>>

(***************************************************************************)
(* Spec: the pipeline of minijava_codegen.py's main program followed by    *)
(* mips_to_binary.py's, on a family of source programs                     *)
(***************************************************************************)
\* One iteration of the while loop of scanner.tokenize(code).
Tokenize ==
    /\ pc = "scanning"
    /\ position < Len(code)
    /\ \E match \in {FirstMatch(code, position + 1, 1)} :
          IF match[1] = None
          THEN /\ pc' = "failed"
               /\ error' = [exc |-> "SyntaxError",
                            msg |-> <<"Unexpected character:", CharAt(code, position + 1)>>]
               /\ UNCHANGED <<position, tokens>>
          ELSE /\ pc' = pc
               /\ error' = error
               /\ position' = match[2] - 1
               /\ tokens' = IF match[1] \notin {"WHITESPACE", "COMMENT"}
                            THEN Append(tokens, <<match[1],
                                                  SubSeq(code, position + 1, match[2] - 1)>>)
                            ELSE tokens
    /\ UNCHANGED <<code, current_index, syntax_tree, symbol_table, inhVars, backVars>>

\* The exit of that loop: tokenize returns the tokens.
TokenizeReturn ==
    /\ pc = "scanning"
    /\ position >= Len(code)
    /\ pc' = "tokenized"
    /\ UNCHANGED <<code, position, tokens, current_index, syntax_tree, symbol_table, error,
                   inhVars, backVars>>

\* generator = MiniJavaCodeGenerator(syntax_tree, symbol_table);
\* mips_code = generator.generate(); open("output.asm", "w").write(mips_code).
\* A CodeGenerationError is logged, any other exception ends the program; either way
\* no file is written.
Generate ==
    /\ pc = "analyzed"
    /\ \E r \in {generate(MiniJavaCodeGenerator(syntax_tree, symbol_table))} :
          /\ generator' = r.g
          /\ IF r.exc = "none"
             THEN pc' = "generated" /\ error' = error
                  /\ output_asm' = Join(r.g.output, "\n")
             ELSE pc' = "failed" /\ error' = Exception(r) /\ output_asm' = output_asm
    /\ UNCHANGED <<code, position, tokens, current_index, syntax_tree, symbol_table,
                   inhVars, asmVars>>

\* pass_one("output.asm") up to its loop.
pass_one ==
    /\ pc = "generated"
    /\ pc' = "pass_one"
    /\ ADDRESS_COUNTER' = 0
    /\ IN_DATA_SECTION' = FALSE
    /\ infile' = FileLines(output_asm)
    /\ line_index' = 0
    /\ UNCHANGED <<code, position, tokens, current_index, syntax_tree, symbol_table, error,
                   inhVars, generator, output_asm, LABELS, DATA_SECTION, output_bin,
                   printed>>

\* One iteration of the loop of pass_one.
pass_one_loop ==
    /\ pc = "pass_one"
    /\ line_index < Len(infile)
    /\ line_index' = line_index + 1
    /\ \E r \in {pass_one_line(infile[line_index + 1], LABELS, DATA_SECTION,
                               IN_DATA_SECTION, ADDRESS_COUNTER)} :
          /\ LABELS' = r.LABELS
          /\ DATA_SECTION' = r.DATA_SECTION
          /\ IN_DATA_SECTION' = r.IN_DATA_SECTION
          /\ ADDRESS_COUNTER' = r.ADDRESS_COUNTER
          /\ printed' = IF r.printed = <<>> THEN printed ELSE Append(printed, r.printed)
          /\ IF r.exc = "none"
             THEN pc' = pc /\ error' = error
             ELSE pc' = "failed" /\ error' = Exception(r)
    /\ UNCHANGED <<code, position, tokens, current_index, syntax_tree, symbol_table,
                   inhVars, generator, output_asm, infile, output_bin>>

\* The return of pass_one and pass_two("output.asm", "output.bin") up to its loop: the
\* output file is opened for writing, which empties it.
pass_two ==
    /\ pc = "pass_one"
    /\ line_index = Len(infile)
    /\ pc' = "pass_two"
    /\ ADDRESS_COUNTER' = 0
    /\ infile' = FileLines(output_asm)
    /\ line_index' = 0
    /\ output_bin' = <<>>
    /\ UNCHANGED <<code, position, tokens, current_index, syntax_tree, symbol_table, error,
                   inhVars, generator, output_asm, LABELS, DATA_SECTION, IN_DATA_SECTION,
                   printed>>

\* One iteration of the loop of pass_two.
pass_two_loop ==
    /\ pc = "pass_two"
    /\ line_index < Len(infile)
    /\ line_index' = line_index + 1
    /\ \E r \in {pass_two_line(infile[line_index + 1], LABELS, ADDRESS_COUNTER)} :
          /\ ADDRESS_COUNTER' = r.ADDRESS_COUNTER
          /\ output_bin' = output_bin \o r.written
          /\ printed' = IF r.printed = <<>> THEN printed ELSE Append(printed, r.printed)
          /\ IF r.exc = "none"
             THEN pc' = pc /\ error' = error
             ELSE pc' = "failed" /\ error' = Exception(r)
    /\ UNCHANGED <<code, position, tokens, current_index, syntax_tree, symbol_table,
                   inhVars, generator, output_asm, infile, LABELS, DATA_SECTION,
                   IN_DATA_SECTION>>

\* The return of pass_two.
pass_two_return ==
    /\ pc = "pass_two"
    /\ line_index = Len(infile)
    /\ pc' = "assembled"
    /\ UNCHANGED <<code, position, tokens, current_index, syntax_tree, symbol_table, error,
                   inhVars, backVars>>

\* The program that minijava_codegen.py's main program compiles.
Factorial ==
    "\n    class Factorial {\n        public static void main(String[] a) {\n"
    \o "            System.out.println(new Fac().ComputeFac(10));\n        }\n    }\n\n"
    \o "    class Fac {\n        public int ComputeFac(int num) {\n"
    \o "            int num_aux;\n            if (num < 1)\n                num_aux = 1;\n"
    \o "            else\n"
    \o "                num_aux = num * (this.ComputeFac(num - 1));\n"
    \o "            return num_aux;\n        \n        }\n    }\n    "

\* Variants of it.  Main(call) is a main class that prints the result of call.
Main(call) ==
    "class Factorial { public static void main(String[] a) { System.out.println("
    \o call \o "); } } "
\* Two methods with different bodies in the class Fac.
TwoMethods ==
    Main("new Fac().ComputeFac(10)")
    \o "class Fac { public int ComputeFac(int num) { return 1; } "
    \o "public int Other(int n) { int k; k = n + 1; return k; } }"
\* The same class Fac beside a class with a method of its own.
TwoClasses ==
    TwoMethods \o " class Gcd { public int Step(int a) { int r; r = a - 1; return r; } }"
\* A program without a method ComputeFac in a class Fac.
OtherNames == Main("new C().g(1)") \o "class C { public int g(int a) { return a; } }"
\* Programs that the scanner, the parser, the analyzer and the generator reject.
Rejected ==
    {Main("1 @ 2"), Main("1 +"), Main("new Q()"),
     "class Factorial { public static void main(String[] a) { { System.out.println(1); } } }"}

Programs == {Factorial, TwoMethods, TwoClasses, OtherNames} \cup Rejected

Init ==
    /\ pc = "scanning"
    /\ code \in Programs
    /\ position = 0
    /\ tokens = <<>>
    /\ current_index = 0
    /\ syntax_tree = NoneNode
    /\ symbol_table = EmptyDict
    /\ error = NoError
    /\ InhIdle
    /\ BackIdle

Next ==
    \/ Tokenize
    \/ TokenizeReturn
    \/ Parse
    \/ Analyze
    \/ Generate
    \/ pass_one
    \/ pass_one_loop
    \/ pass_two
    \/ pass_two_loop
    \/ pass_two_return

Spec == Init /\ [][Next]_vars

(***************************************************************************)
(* SpecSem: the semantic analyzer on a family of parsed programs           *)
(***************************************************************************)
\* The tokens of a source fragment that the scanner accepts.
Toks(s) == tokenize(s).val

\* Operands: x, y are int, b, c are boolean; z and current_class are declared nowhere.
SemAtoms == {"1", "x", "b", "z", "current_class"}
SemBinaryOperators == {"+", "*", "<", "&&"}
SemBinary == {l \o " " \o op \o " " \o r : l \in SemAtoms, op \in SemBinaryOperators, r \in SemAtoms}
SemReceivers == {"this", "new C()"}
SemMethods == {"g0", "g1", "g2", "gd", "m"}
SemArguments == {"", "1", "b", "1, b", "1, 1", "b, 1", "x + 1", "b + 1", "z"}
SemCalls == {r \o "." \o m \o "(" \o a \o ")" : r \in SemReceivers, m \in SemMethods, a \in SemArguments}
SemExpressions == SemAtoms \cup {"y", "c", "true"} \cup SemBinary \cup SemCalls
SemCommands ==
    {"y = " \o e \o ";" : e \in SemExpressions}
    \cup {"c = " \o e \o ";" : e \in SemExpressions}
    \cup {"if (" \o e \o ") y = 1; else y = 2;" : e \in SemExpressions}
    \cup {"while (" \o e \o ") y = 1;" : e \in SemExpressions}
    \cup {"System.out.println(" \o e \o ");" : e \in SemExpressions}
    \cup {"z = 1;", "current_class = 1;", "if (b) y = 1;", "{ y = 1; z = 2; }"}
SemMainCommands ==
    {"System.out.println(" \o e \o ");" : e \in SemAtoms \cup {"a"} \cup SemCalls}
    \cup {"z = 1;", "current_class = 1;", "a = 1;"}

SemMainHead == Toks("class M { public static void main(String[] a){")
SemMainTail == Toks("} }")
SemParent == Toks("class P { int pf; public int m(int p){ return p; } }")
SemChildHead ==
    Toks("class C extends P { int fld; public int g0(){ return 1; }")
    \o Toks("public int g1(int p){ return p; }")
    \o Toks("public int g2(int p, boolean q){ return p; }")
    \o Toks("public int gd(int p, int p){ return p; }")
    \o Toks("public int f(int x, boolean b){ int y; boolean c;")
SemChildTail == Toks("; } }")

SemProgram(main_command, command, return_expression) ==
    SemMainHead \o Toks(main_command) \o SemMainTail \o SemParent
    \o SemChildHead \o Toks(command) \o Toks("return " \o return_expression) \o SemChildTail

SemPrograms ==
    {SemProgram("", c, "y") : c \in SemCommands}
    \cup {SemProgram("", "", e) : e \in SemExpressions}
    \cup {SemProgram(c, "", "y") : c \in SemMainCommands}

InitSem ==
    /\ pc = "tokenized"
    /\ code = ""
    /\ position = 0
    /\ tokens \in SemPrograms
    /\ current_index = 0
    /\ syntax_tree = NoneNode
    /\ symbol_table = EmptyDict
    /\ error = NoError
    /\ InhIdle
    /\ BackIdle

NextSem == Parse \/ Analyze

SpecSem == InitSem /\ [][NextSem]_vars

(***************************************************************************)
(* SpecExpr: parse_expression on operands joined by binary operators       *)
(***************************************************************************)
\* parser = MiniJavaParserLL1(tokens); parser.parse_expression()
ParseExpression ==
    /\ pc = "tokenized"
    /\ \E r \in {parse("parse_expression", tokens, 0, NoneNode)} :
            /\ current_index' = r.idx
            /\ IF r.exc = "none"
               THEN syntax_tree' = r.node /\ pc' = "parsed" /\ error' = error
               ELSE syntax_tree' = syntax_tree /\ pc' = "failed" /\ error' = Exception(r)
    /\ UNCHANGED <<code, position, tokens, symbol_table, inhVars, backVars>>

\* The expressions: up to MaxOperators binary operators of the four layers between
\* identifiers, as the scanner hands them over.
MaxOperators == 3
ExprOperands == <<"a", "b", "c", "d", "e", "f">>
ExprOperators == {"&&", "<", "==", "!=", "+", "-", "*"}
ExprTokens(operators) ==
    [i \in 1..(2 * Len(operators) + 1) |->
        IF i % 2 = 1 THEN <<"IDENTIFIER", ExprOperands[(i + 1) \div 2]>>
        ELSE <<"OPERATOR", operators[i \div 2]>>]
ExprTokenSequences ==
    {ExprTokens(operators) :
        operators \in UNION {[1..n -> ExprOperators] : n \in 0..MaxOperators}}

InitExpr ==
    /\ pc = "tokenized"
    /\ code = ""
    /\ position = 0
    /\ tokens \in ExprTokenSequences
    /\ current_index = 0
    /\ syntax_tree = NoneNode
    /\ symbol_table = EmptyDict
    /\ error = NoError
    /\ InhIdle
    /\ BackIdle

NextExpr == ParseExpression

SpecExpr == InitExpr /\ [][NextExpr]_vars

(***************************************************************************)
(* SpecInh: resolve_inheritance on a family of symbol tables               *)
(***************************************************************************)
\* for class_name in self.symbol_table: self.resolve_class_inheritance(class_name, set())
resolve_inheritance ==
    /\ pc = "resolving"
    /\ call_stack = <<>>
    /\ IF class_index < Len(symbol_table)
       THEN /\ class_index' = class_index + 1
            /\ call_stack' = <<[class_name |-> symbol_table[class_index + 1][1],
                                parent_name |-> None]>>
            /\ visited' = {}
            /\ pc' = pc
       ELSE /\ pc' = "resolved"
            /\ UNCHANGED <<class_index, call_stack, visited>>
    /\ UNCHANGED <<code, position, tokens, current_index, syntax_tree, symbol_table, error,
                   declarations, backVars>>

\* The innermost activation of resolve_class_inheritance, from its entry to its
\* recursive call, its return (no parent) or its raise.
resolve_class_inheritance ==
    /\ pc = "resolving"
    /\ call_stack # <<>>
    /\ call_stack[Len(call_stack)].parent_name = None
    /\ \E r \in {enter_class(symbol_table, call_stack[Len(call_stack)].class_name, visited)} :
          IF r.exc # "none"
          THEN /\ pc' = "failed"
               /\ error' = Exception(r)
               /\ call_stack' = <<>>
               /\ visited' = visited
          ELSE /\ pc' = pc
               /\ error' = error
               /\ visited' = visited \cup {call_stack[Len(call_stack)].class_name}
               /\ call_stack' =
                    IF r.val = None
                    THEN SubSeq(call_stack, 1, Len(call_stack) - 1)
                    ELSE Append([call_stack EXCEPT ![Len(call_stack)].parent_name = r.val],
                                [class_name |-> r.val, parent_name |-> None])
    /\ UNCHANGED <<code, position, tokens, current_index, syntax_tree, symbol_table,
                   declarations, class_index, backVars>>

\* The innermost activation after its recursive call returned: the merge of the
\* parent's entry into the child's, then its return or the raise of an override check.
resolve_class_inheritance_merge ==
    /\ pc = "resolving"
    /\ call_stack # <<>>
    /\ call_stack[Len(call_stack)].parent_name # None
    /\ \E r \in {inherit(symbol_table, call_stack[Len(call_stack)].class_name,
                         call_stack[Len(call_stack)].parent_name)} :
          /\ symbol_table' = r.val
          /\ IF r.exc # "none"
             THEN pc' = "failed" /\ error' = Exception(r) /\ call_stack' = <<>>
             ELSE /\ pc' = pc
                  /\ error' = error
                  /\ call_stack' = SubSeq(call_stack, 1, Len(call_stack) - 1)
    /\ UNCHANGED <<code, position, tokens, current_index, syntax_tree, declarations,
                   class_index, visited, backVars>>

\* The symbol tables resolve_inheritance is given: MaxClasses classes, each extending
\* nothing, a class of the table or the class U that the table lacks, each with its own
\* field and with no method or with a method m of one of the signatures.
MaxClasses == 3
InhClassNames == <<"A", "B", "C", "D", "E">>
InhClasses == {InhClassNames[i] : i \in 1..MaxClasses}
InhSignatures ==
    {[parameters |-> <<<<"a", "int">>>>, return_type |-> "int"],
     [parameters |-> <<<<"b", "int">>>>, return_type |-> "int"],
     [parameters |-> <<<<"a", "boolean">>>>, return_type |-> "int"],
     [parameters |-> <<<<"a", "int">>>>, return_type |-> "boolean"],
     [parameters |-> <<<<"a", "int">>, <<"b", "int">>>>, return_type |-> "int"]}
InhMethods == {EmptyDict} \cup {<< <<"m", s>> >> : s \in InhSignatures}
InhEntries ==
    [fields : {<< <<"x", "int">> >>}, methods : InhMethods,
     extends : {None, "U"} \cup InhClasses]
InhTables ==
    {[i \in 1..MaxClasses |-> <<InhClassNames[i], entries[i]>>] :
        entries \in [1..MaxClasses -> InhEntries]}

InitInh ==
    /\ pc = "resolving"
    /\ code = ""
    /\ position = 0
    /\ tokens = <<>>
    /\ current_index = 0
    /\ syntax_tree = NoneNode
    /\ symbol_table \in InhTables
    /\ declarations = symbol_table
    /\ error = NoError
    /\ class_index = 0
    /\ call_stack = <<>>
    /\ visited = {}
    /\ BackIdle

NextInh == resolve_inheritance \/ resolve_class_inheritance \/ resolve_class_inheritance_merge

SpecInh == InitInh /\ [][NextInh]_vars
\* The interpreter runs resolve_inheritance to its end.
FairSpecInh == SpecInh /\ WF_vars(NextInh)

(***************************************************************************)
(* What the specification says of a checked program, read off its syntax   *)
(* tree alone.                                                             *)
(***************************************************************************)
\* The elements of a list of nodes.
Elements(nodes) == {nodes[i] : i \in 1..Len(nodes)}

\* The expressions written as the arguments of a MethodCall node.
ArgumentsOf(call) ==
    IF "expressions" \in DOMAIN call.arguments THEN call.arguments.expressions ELSE <<>>

\* Every command and expression node written in a command or expression.
RECURSIVE SubNodes(_)
SubNodes(node) ==
    {node} \cup
    CASE node.type \in {"ArithmeticOp", "RelationalOp", "LogicalAnd"} ->
            SubNodes(node.left) \cup SubNodes(node.right)
      [] node.type = "MethodCall" ->
            SubNodes(node.target) \cup UNION {SubNodes(a) : a \in Elements(ArgumentsOf(node))}
      [] node.type = "FieldAccess" -> SubNodes(node.target)
      [] node.type = "ArrayAccess" -> SubNodes(node.array) \cup SubNodes(node.index)
      [] node.type = "NewArray" -> SubNodes(node.size)
      [] node.type = "Assignment" -> SubNodes(node.value)
      [] node.type = "ArrayAssignment" -> SubNodes(node.index) \cup SubNodes(node.value)
      [] node.type = "Print" -> SubNodes(node.expression)
      [] node.type = "If" ->
            SubNodes(node.condition) \cup SubNodes(node.if_true) \cup SubNodes(node.if_false)
      [] node.type = "While" -> SubNodes(node.condition) \cup SubNodes(node.body)
      [] node.type = "Block" -> UNION {SubNodes(c) : c \in Elements(node.commands)}
      [] OTHER -> {}

\* The bodies the analyzer checks: the main body and every method of every class,
\* each with the class it belongs to and the variables declared in it.
MainBody(tree) ==
    [class_name |-> tree.main_class.class_name, parameters |-> <<>>,
     local_variables |-> <<>>, commands |-> tree.main_class.commands,
     returns |-> {}]
MethodBody(class, method) ==
    [class_name |-> class.name, parameters |-> method.parameters,
     local_variables |-> method.local_variables, commands |-> method.commands,
     returns |-> {method.return_expression}]
CheckedBodies(tree) ==
    {MainBody(tree)}
    \cup {MethodBody(class, method) :
            <<class, method>> \in UNION {{class} \X Elements(class.methods) :
                                            class \in Elements(tree.classes)}}
MethodBodies(tree) == CheckedBodies(tree) \ {MainBody(tree)}

\* Every node written in a body.
NodesOf(body) ==
    UNION {SubNodes(c) : c \in Elements(body.commands)}
    \cup UNION {SubNodes(e) : e \in body.returns}

\* The names a body declares, and the declared type of one of them.
DeclaredNames(body) ==
    {p.name : p \in Elements(body.parameters)}
    \cup {v.name : v \in Elements(body.local_variables)}
DeclaredType(body, name) ==
    IF \E v \in Elements(body.local_variables) : v.name = name
    THEN (CHOOSE v \in Elements(body.local_variables) : v.name = name).var_type
    ELSE (CHOOSE q \in Elements(body.parameters) : q.name = name).param_type

\* The identifiers a body uses: assignment targets and identifiers in expressions.
UsedNames(body) ==
    {n.name : n \in {m \in NodesOf(body) : m.type = "Identifier"}}
    \cup {n.target : n \in {m \in NodesOf(body) : m.type \in {"Assignment", "ArrayAssignment"}}}
UndeclaredNames(body) == UsedNames(body) \ DeclaredNames(body)

\* The class a call's receiver denotes (`new C()` or `this`), None for another receiver.
ReceiverClass(body, call) ==
    IF call.target.type = "NewObject" THEN call.target.class_name
    ELSE IF call.target.type = "This" THEN body.class_name
    ELSE None
\* The declarations of method name in class class_name, as written in the program.
DeclarationsOf(tree, class_name, name) ==
    {m \in UNION {Elements(class.methods) :
                     class \in {c \in Elements(tree.classes) : c.name = class_name}} :
        m.name = name}

\* The type of an expression of a body by the language's typing rules; None where
\* the rules give none.
RECURSIVE TypeOf(_, _, _)
TypeOf(tree, body, e) ==
    CASE e.type = "Number" -> "int"
      [] e.type = "BooleanLiteral" -> "boolean"
      [] e.type = "ArithmeticOp" -> "int"
      [] e.type \in {"RelationalOp", "LogicalAnd"} -> "boolean"
      [] e.type = "Identifier" ->
            IF e.name \in DeclaredNames(body) THEN DeclaredType(body, e.name) ELSE None
      [] e.type = "MethodCall" ->
            IF Cardinality(DeclarationsOf(tree, ReceiverClass(body, e), e.method_name)) = 1
            THEN (CHOOSE m \in DeclarationsOf(tree, ReceiverClass(body, e), e.method_name) :
                     TRUE).return_type
            ELSE None
      [] OTHER -> None

\* The analyzer has run on the program and rejected it with a SemanticError.
Analyzed == pc = "analyzed" \/ (pc = "failed" /\ syntax_tree # NoneNode)
RejectedBySemanticError == pc = "failed" /\ error.exc = "SemanticError"
Names(message, name) == \E i \in 1..Len(message) : message[i] = name

\* C3: a program in which a checked body uses an identifier that the body does
\* not declare is rejected by analyze() with a SemanticError whose message names
\* an identifier the body uses without declaring it.
C3_UndeclaredIdentifierIsRejected ==
    Analyzed =>
        \A body \in CheckedBodies(syntax_tree) :
            UndeclaredNames(body) # {} =>
                /\ RejectedBySemanticError
                /\ \E name \in UNION {UndeclaredNames(b) : b \in CheckedBodies(syntax_tree)} :
                       Names(error.msg, name)

\* C4: a method with an assignment x = e, where x is declared with type T and e
\* has another type, is rejected by analyze() with a SemanticError.
C4_AssignmentTypeMismatchIsRejected ==
    Analyzed =>
        \A body \in MethodBodies(syntax_tree) :
            \A a \in {n \in NodesOf(body) : n.type = "Assignment"} :
                (/\ a.target \in DeclaredNames(body)
                 /\ TypeOf(syntax_tree, body, a.value) # None
                 /\ TypeOf(syntax_tree, body, a.value) # DeclaredType(body, a.target))
                => RejectedBySemanticError

\* C5: a program with an ArithmeticOp node, anywhere in a checked body, one of
\* whose operands has a type other than int is rejected by analyze() with a
\* SemanticError.
C5_ArithmeticOperandsAreInt ==
    Analyzed =>
        \A body \in CheckedBodies(syntax_tree) :
            \A op \in {n \in NodesOf(body) : n.type = "ArithmeticOp"} :
                (\E operand \in {op.left, op.right} :
                    TypeOf(syntax_tree, body, operand) \notin {None, "int"})
                => RejectedBySemanticError

\* C6: a program with a call on `new C()` or `this` of a method declared in that
\* class, whose arguments differ from the declared parameters in number or, at
\* some position, in type, is rejected by analyze() with a SemanticError; the
\* parameters counted are those written in the method declaration.
Mismatch(tree, body, call, m) ==
    \/ Len(ArgumentsOf(call)) # Len(m.parameters)
    \/ \E i \in 1..Len(m.parameters) :
          /\ TypeOf(tree, body, ArgumentsOf(call)[i]) # None
          /\ TypeOf(tree, body, ArgumentsOf(call)[i]) # m.parameters[i].param_type
MismatchedCall(tree, body, call) ==
    \E m \in DeclarationsOf(tree, ReceiverClass(body, call), call.method_name) :
        Mismatch(tree, body, call, m)
C6_CallArgumentsMatchParameters ==
    Analyzed =>
        \A body \in CheckedBodies(syntax_tree) :
            \A call \in {n \in NodesOf(body) : n.type = "MethodCall"} :
                MismatchedCall(syntax_tree, body, call) => RejectedBySemanticError

\* C7: analyze() resolves inheritance.  A call `new Child().m(...)` of a method
\* declared in Child's parent only, with matching arguments, is not rejected as a
\* call of a method the class lacks; and when analyze() returns, the symbol table
\* entry of a class that extends another class of the program holds every field
\* and every method of the parent.
ParentsOf(tree, class_name) ==
    {p \in Elements(tree.classes) :
        \E c \in Elements(tree.classes) : c.name = class_name /\ c.parent = p.name}
InheritedCall(tree, body, call) ==
    /\ call.target.type = "NewObject"
    /\ DeclarationsOf(tree, call.target.class_name, call.method_name) = {}
    /\ \E p \in ParentsOf(tree, call.target.class_name) :
          \E m \in DeclarationsOf(tree, p.name, call.method_name) :
              ~Mismatch(tree, body, call, m)
InheritsAll(table, child, parent) ==
    /\ \A v \in Elements(parent.variables) : DictHas(DictGet(table, child.name).fields, v.name)
    /\ \A m \in Elements(parent.methods) : DictHas(DictGet(table, child.name).methods, m.name)
C7_AnalyzeResolvesInheritance ==
    /\ Analyzed =>
          \A body \in CheckedBodies(syntax_tree) :
              \A call \in {n \in NodesOf(body) : n.type = "MethodCall"} :
                  InheritedCall(syntax_tree, body, call)
                  => ~(RejectedBySemanticError /\ Names(error.msg, "not found in class"))
    /\ pc = "analyzed" =>
          \A child \in Elements(syntax_tree.classes) :
              \A parent \in {c \in Elements(syntax_tree.classes) : c.name = child.parent} :
                  InheritsAll(symbol_table, child, parent)

(***************************************************************************)
(* What the specification says of inheritance resolution, read off the     *)
(* symbol table it is given.                                               *)
(***************************************************************************)
\* The class that class_name extends in table, None if it extends none.
ExtendsOf(table, class_name) ==
    IF DictHas(table, class_name) /\ DictGet(table, class_name).extends # ""
    THEN DictGet(table, class_name).extends ELSE None
\* The classes that the extends links lead to from class_name, in one step or more.
AncestorsOf(table, class_name) ==
    LET reached[i \in 0..Len(table)] ==
            IF i = 0 THEN {ExtendsOf(table, class_name)} \ {None}
            ELSE reached[i - 1] \cup ({ExtendsOf(table, c) : c \in reached[i - 1]} \ {None}) IN
    reached[Len(table)]
Cyclic(table) == \E c \in DictKeys(table) : c \in AncestorsOf(table, c)
ParentsDefined(table) ==
    \A c \in DictKeys(table) : ExtendsOf(table, c) # None => DictHas(table, ExtendsOf(table, c))
SameSignature(parent_method, child_method) ==
    /\ parent_method.return_type = child_method.return_type
    /\ Len(parent_method.parameters) = Len(child_method.parameters)
    /\ \A i \in 1..Len(parent_method.parameters) :
          i <= Len(child_method.parameters)
          => parent_method.parameters[i][2] = child_method.parameters[i][2]
\* The methods a class declares itself.
OwnMethods(table, class_name) == DictGet(table, class_name).methods
\* Every method a class redeclares has the signature an ancestor declares for it.
OverridesAgree(table) ==
    \A c \in DictKeys(table) :
        \A a \in AncestorsOf(table, c) \cap DictKeys(table) :
            \A m \in DictKeys(OwnMethods(table, c)) \cap DictKeys(OwnMethods(table, a)) :
                SameSignature(DictGet(OwnMethods(table, a), m), DictGet(OwnMethods(table, c), m))
Resolving == pc \in {"resolving", "resolved"} \/ (pc = "failed" /\ declarations # EmptyDict)
CyclicInheritanceRaised ==
    /\ pc = "failed"
    /\ error.exc = "SemanticError"
    /\ Names(error.msg, "Cyclic inheritance detected in class")

\* C8 as stated: on every symbol table whose extends links contain a cycle,
\* resolve_inheritance ends by raising the SemanticError that reports cyclic inheritance.
C8_CycleRaisesCyclicInheritance ==
    (pc = "resolving" /\ Cyclic(declarations)) ~> CyclicInheritanceRaised

\* C8: on every symbol table whose extends links contain a cycle, resolve_inheritance
\* ends by raising a SemanticError; it is the one reporting cyclic inheritance when
\* every extends names a class of the table and every redeclared method has its
\* ancestors' signature; it never ends normally; and there are never more nested
\* activations of resolve_class_inheritance than the number of classes plus one.
C8_CycleRaisesSemanticError ==
    /\ (pc = "resolving") ~> (pc \in {"resolved", "failed"})
    /\ [](pc = "resolved" => ~Cyclic(declarations))
    /\ []((pc = "failed" /\ Cyclic(declarations)) =>
            /\ error.exc = "SemanticError"
            /\ (ParentsDefined(declarations) /\ OverridesAgree(declarations))
                   => CyclicInheritanceRaised)
    /\ [](Resolving => Len(call_stack) <= Len(declarations) + 1)

\* A cycle through every class of a table of more than one class was reported, from
\* the deepest nesting the resolution reaches.
C8_CycleOfAllClassesRaised ==
    /\ CyclicInheritanceRaised
    /\ Len(declarations) > 1
    /\ visited = DictKeys(declarations)
    /\ \A c \in DictKeys(declarations) : AncestorsOf(declarations, c) = DictKeys(declarations)

\* C9: resolve_inheritance ends; it ends with a SemanticError, and with nothing else,
\* when a class redeclares a method with a return type, a parameter count or a
\* parameter type other than an ancestor's; it ends normally when every redeclared
\* method has its ancestors' signature (all parents defined, no cycle); and after a
\* normal end every class's entry for a method it declares is the entry it declared.
C9_OverrideSignaturesAreChecked ==
    /\ [](pc = "resolved" => OverridesAgree(declarations))
    /\ []((pc = "failed" /\ declarations # EmptyDict) =>
            /\ error.exc = "SemanticError"
            /\ ~(/\ ParentsDefined(declarations)
                 /\ ~Cyclic(declarations)
                 /\ OverridesAgree(declarations)))
    /\ [](pc = "resolved" =>
            \A c \in DictKeys(declarations) :
                \A m \in DictKeys(OwnMethods(declarations, c)) :
                    DictGet(OwnMethods(symbol_table, c), m)
                        = DictGet(OwnMethods(declarations, c), m))
    /\ (pc = "resolving") ~> (pc \in {"resolved", "failed"})

\* A resolution ended normally for a class that redeclares a method of its parent with
\* the parent's signature and other parameter names, and the class kept its own entry.
C9_IdenticalOverrideKept ==
    /\ pc = "resolved"
    /\ \E c \in DictKeys(declarations) :
          /\ ExtendsOf(declarations, c) # None
          /\ DictHas(OwnMethods(declarations, c), "m")
          /\ DictHas(OwnMethods(declarations, ExtendsOf(declarations, c)), "m")
          /\ DictGet(OwnMethods(declarations, c), "m")
                # DictGet(OwnMethods(declarations, ExtendsOf(declarations, c)), "m")
          /\ DictGet(OwnMethods(symbol_table, c), "m") = DictGet(OwnMethods(declarations, c), "m")

(***************************************************************************)
(* What the specification says of the tree of an expression, read off the  *)
(* tokens alone.                                                           *)
(***************************************************************************)
\* The binding strength of a binary operator: 1 loosest, 4 tightest.
Level(operator) ==
    CASE operator = "&&" -> 1
      [] operator \in {"<", "==", "!="} -> 2
      [] operator \in {"+", "-"} -> 3
      [] operator = "*" -> 4
BinaryNode(operator, left, right) ==
    CASE Level(operator) = 1 -> [type |-> "LogicalAnd", left |-> left, right |-> right]
      [] Level(operator) = 2 ->
            [type |-> "RelationalOp", operator |-> operator, left |-> left, right |-> right]
      [] OTHER ->
            [type |-> "ArithmeticOp", operator |-> operator, left |-> left, right |-> right]
\* The tree of the tokens lo..hi (1-based) of operand (operator operand)*: its root is
\* the last of the loosest operators, which splits the tokens into its two operands.
RECURSIVE PrecedenceTree(_, _, _)
PrecedenceTree(toks, lo, hi) ==
    IF lo = hi THEN [type |-> "Identifier", name |-> toks[lo][2]]
    ELSE LET operators == {i \in lo..hi : toks[i][1] = "OPERATOR"}
             loosest == {i \in operators :
                            \A j \in operators : Level(toks[i][2]) <= Level(toks[j][2])}
             root == CHOOSE i \in loosest : \A j \in loosest : j <= i IN
         BinaryNode(toks[root][2], PrecedenceTree(toks, lo, root - 1),
                    PrecedenceTree(toks, root + 1, hi))

\* C10: parse_expression reads every sequence operand (operator operand)* of the
\* operators &&, <, ==, !=, +, -, * to its end and builds the tree in which * binds
\* tighter than + and -, these tighter than the relational operators, these tighter
\* than &&, and operators of one level group from the left.
C10_PrecedenceAndLeftAssociativity ==
    (pc # "tokenized" /\ tokens \in ExprTokenSequences) =>
        /\ pc = "parsed"
        /\ current_index = Len(tokens)
        /\ syntax_tree = PrecedenceTree(tokens, 1, Len(tokens))

\* a - b * c - d was parsed as ((a - (b * c)) - d).
C10_MixedChainParsed ==
    /\ pc = "parsed"
    /\ tokens = ExprTokens(<<"-", "*", "-">>)
    /\ syntax_tree.operator = "-"
    /\ syntax_tree.right.name = "d"
    /\ syntax_tree.left.operator = "-"
    /\ syntax_tree.left.right.operator = "*"

(***************************************************************************)
(* Claims C1, C2: the generated assembly and the words assembled from it   *)
(***************************************************************************)
\* What a line of assembly holds beside its comment and the blanks around it, and
\* the words of that.
Content(line) == With([text \in {SplitOn(line, "#")[1]} |-> Strip(text, WhitespaceChars)])
Words(line) == With([content \in {Content(line)} |-> Split(content)])

\* The generated text, line by line: the content of each line and its words.
GeneratedLines ==
    With([lines \in {FileLines(output_asm)} |->
        [i \in 1..Len(lines) |->
            With([content \in {Content(lines[i])} |->
                [content |-> content, words |-> Split(content)]])]])

\* The lines of the generated text that hold an instruction: not blank, not a
\* directive, not a label.
InstructionLines(lines) ==
    {i \in 1..Len(lines) :
        /\ lines[i].content # ""
        /\ ~StartsWithAt(lines[i].content, 1, ".")
        /\ ~Contains(lines[i].content, ":")}

\* The label Fac_ComputeFac, then a conditional branch, then a jal Fac_ComputeFac.
LabelBranchCall(lines) ==
    With([labels \in {{i \in 1..Len(lines) : lines[i].content = "Fac_ComputeFac:"}} |->
    With([branches \in {{i \in 1..Len(lines) :
                            /\ Len(lines[i].words) >= 1
                            /\ lines[i].words[1] \in {"beq", "bne"}}} |->
    With([calls \in {{i \in 1..Len(lines) :
                         /\ Len(lines[i].words) >= 2
                         /\ lines[i].words[1] = "jal"
                         /\ lines[i].words[2] = "Fac_ComputeFac"}} |->
    \E i \in labels, j \in branches, k \in calls : i < j /\ j < k])])])

\* The stages of the pipeline in the order it passes them.
Stages == <<"scanning", "tokenized", "parsed", "analyzed", "generated", "pass_one",
            "pass_two", "assembled">>
StageOf(stage) == CHOOSE i \in 1..Len(Stages) : Stages[i] = stage
\* A step that takes the pipeline to a later stage or its loop to a later iteration.
Advances ==
    /\ pc' \in Elements(Stages)
    /\ \/ StageOf(pc') > StageOf(pc)
       \/ pc' = pc /\ position' + line_index' > position + line_index

\* C1: for the Factorial program the pipeline (tokenize, parse_program, analyze,
\* generate, pass_one, pass_two) runs to its end with no exception and no error
\* printed: no step fails and every step advances the stage or, within the bounds of
\* its loop, the iteration, up to the end of pass_two; the generated text holds the label Fac_ComputeFac followed by a
\* conditional branch and a jal Fac_ComputeFac; and pass_two writes as many 32-bit
\* words as the generated text has instruction lines.
C1_FactorialPipelineCompletes ==
    /\ [](code = Factorial => pc # "failed" /\ error = NoError /\ printed = <<>>)
    /\ [](code = Factorial => position <= Len(code) /\ line_index <= Len(infile))
    /\ [][code = Factorial => Advances]_vars
    /\ []((code = Factorial /\ pc = "generated") =>
             With([lines \in {GeneratedLines} |-> LabelBranchCall(lines)]))
    /\ []((code = Factorial /\ pc = "assembled") =>
             With([lines \in {GeneratedLines} |->
                 Len(output_bin) = 4 * Cardinality(InstructionLines(lines))]))

\* The Factorial program is assembled into 35 words.
C1_FactorialAssembled ==
    /\ code = Factorial
    /\ pc = "assembled"
    /\ Len(output_bin) = 4 * 35
    /\ DictHas(LABELS, "Fac_ComputeFac")

\* The methods of the classes of a syntax tree, each with its class.
MethodsOf(tree) ==
    UNION {{class} \X Elements(class.methods) : class \in Elements(tree.classes)}

\* The lines emitted under the label of a method, as their words: those after the
\* label up to the jr that returns from the method.
MethodCode(text_section, class, method) ==
    With([words \in {[i \in 1..Len(text_section) |-> Words(text_section[i])]} |->
    With([label \in {CHOOSE i \in 1..Len(words) :
                        words[i] = <<class.name \o "_" \o method.name \o ":">>} |->
    With([return \in {SetMin({i \in (label + 1)..Len(words) :
                                 Len(words[i]) >= 1 /\ words[i][1] = "jr"}
                             \cup {Len(words)})} |->
    SubSeq(words, label + 1, return)])])])

\* The labels that the jal instructions of some lines name.
CallTargets(lines) ==
    {lines[i][2] : i \in {j \in 1..Len(lines) : Len(lines[j]) >= 2 /\ lines[j][1] = "jal"}}

\* The labels of the methods that the calls written in a body name.
CalledLabels(tree, body) ==
    {class.name \o "_" \o node.method_name :
        class \in Elements(tree.classes),
        node \in {n \in NodesOf(body) : n.type = "MethodCall"}}

\* C2: the instructions emitted under the label of a method are the translation of
\* that method's own commands and return expression: two methods with different
\* bodies get different code, and the code of a method calls no method that its body
\* does not call.
C2_MethodCodeIsTranslationOfItsBody ==
    pc = "generated" =>
        With([emitted \in {[m \in MethodsOf(syntax_tree) |->
                               MethodCode(generator.text_section, m[1], m[2])]} |->
        \A m1 \in MethodsOf(syntax_tree) :
            /\ \A m2 \in MethodsOf(syntax_tree) :
                  <<m1[2].commands, m1[2].return_expression>>
                        # <<m2[2].commands, m2[2].return_expression>>
                  => emitted[m1] # emitted[m2]
            /\ CallTargets(emitted[m1]) \subseteq CalledLabels(syntax_tree,
                                                               MethodBody(m1[1], m1[2]))])

(***************************************************************************)
(* SpecRel: the scanner and parse_expression on `left OP right`             *)
(***************************************************************************)
\* The six comparison operators of the scanner's OPERATOR pattern.
ComparisonOperators == {"<", "<=", ">", ">=", "==", "!="}
\* Additive expressions with the trees parse_aexp builds for them.
RelOperands ==
    {[text |-> "a", tree |-> [type |-> "Identifier", name |-> "a"]],
     [text |-> "b", tree |-> [type |-> "Identifier", name |-> "b"]],
     [text |-> "7", tree |-> [type |-> "Number", value |-> 7]],
     [text |-> "a + 1",
      tree |-> [type |-> "ArithmeticOp", operator |-> "+",
                left |-> [type |-> "Identifier", name |-> "a"],
                right |-> [type |-> "Number", value |-> 1]]],
     [text |-> "2 * c",
      tree |-> [type |-> "ArithmeticOp", operator |-> "*",
                left |-> [type |-> "Number", value |-> 2],
                right |-> [type |-> "Identifier", name |-> "c"]]]}
Comparison(left, operator, right) == left.text \o " " \o operator \o " " \o right.text
Comparisons ==
    {Comparison(left, operator, right) :
        left \in RelOperands, operator \in ComparisonOperators, right \in RelOperands}

InitRel ==
    /\ pc = "scanning"
    /\ code \in Comparisons
    /\ position = 0
    /\ tokens = <<>>
    /\ current_index = 0
    /\ syntax_tree = NoneNode
    /\ symbol_table = EmptyDict
    /\ error = NoError
    /\ InhIdle
    /\ BackIdle

NextRel ==
    \/ Tokenize
    \/ TokenizeReturn
    \/ ParseExpression

SpecRel == InitRel /\ [][NextRel]_vars

(***************************************************************************)
(* Claim C11                                                               *)
(***************************************************************************)
\* C11: for each of the six operators <, <=, >, >=, == and !=, once the parser has
\* run on `a OP b` (a, b additive expressions) it has returned the RelationalOp node
\* carrying OP with the trees of a and b as its left and right children.
C11_SixRelationalOperatorsParsed ==
    \A left \in RelOperands, operator \in ComparisonOperators, right \in RelOperands :
        (code = Comparison(left, operator, right) /\ pc \notin {"scanning", "tokenized"})
            => /\ pc = "parsed"
               /\ syntax_tree = [type |-> "RelationalOp", operator |-> operator,
                                 left |-> left.tree, right |-> right.tree]

(***************************************************************************)
(* SpecCut: parse_program on a program's tokens, cut short or with one      *)
(* token missing                                                           *)
(***************************************************************************)
CutProgram ==
    <<"class M { public static void main(", "String[] a) { ",
      "x = new C().f(1 + 2, y); ", "if (x < 3) y = new int[2]; else { } ",
      "while (b) z[0] = (y[1]) * 2; ", "System.out.println(new C()); } } ",
      "class C extends D { int v; ", "public int f(int p, boolean r) { ",
      "int q; q = p; return q; } }">>
\* The scanner's tokens of the program, fragment by fragment.
CutTokens ==
    LET scanned[n \in 0..Len(CutProgram)] ==
            IF n = 0 THEN <<>> ELSE scanned[n - 1] \o Toks(CutProgram[n]) IN
    scanned[Len(CutProgram)]
\* The first n tokens, and the tokens without the i-th.
Prefix(toks, n) == SubSeq(toks, 1, n)
Without(toks, i) == SubSeq(toks, 1, i - 1) \o SubSeq(toks, i + 1, Len(toks))
CutTokenSequences ==
    {Prefix(CutTokens, n) : n \in 0..Len(CutTokens)}
    \cup {Without(CutTokens, i) : i \in 1..Len(CutTokens)}

InitCut ==
    /\ pc = "tokenized"
    /\ code = ""
    /\ position = 0
    /\ tokens \in CutTokenSequences
    /\ current_index = 0
    /\ syntax_tree = NoneNode
    /\ symbol_table = EmptyDict
    /\ error = NoError
    /\ InhIdle
    /\ BackIdle

NextCut == Parse

SpecCut == InitCut /\ [][NextCut]_vars

(***************************************************************************)
(* Claim C12                                                               *)
(***************************************************************************)
\* The token kinds and values a consume() call of the parser may expect.
Expectations ==
    {<<"IDENTIFIER", None>>, <<"NUMBER", None>>, <<"OPERATOR", None>>, <<"RESERVED", None>>,
     <<"PUNCTUATION", ")">>, <<"PUNCTUATION", ";">>, <<"PUNCTUATION", "}">>,
     <<"RESERVED", "class">>, <<"RESERVED", "return">>, <<"OPERATOR", "=">>}

\* C12: parse_program on a token sequence either returns a Program node or raises
\* ParserError and no other kind of failure, also where the input ends in front of a
\* command, an expression or the token after `new`; and a consume() that raises
\* leaves current_index where it was.
C12_ParseFailsOnlyWithParserError ==
    /\ pc \in {"parsed", "failed"} =>
          \/ pc = "parsed" /\ syntax_tree.type = "Program" /\ error = NoError
          \/ pc = "failed" /\ error.exc = "ParserError"
    /\ \A index \in 0..Len(tokens), expected \in Expectations :
          With([c \in {consume(tokens, index, expected[1], expected[2])} |->
              /\ c.exc \in {"none", "ParserError"}
              /\ c.exc = "ParserError" => c.idx = index
              /\ c.exc = "none" => c.idx = index + 1])

(***************************************************************************)
(* SpecScan: tokenize on two words with a separator between them            *)
(***************************************************************************)
ReservedWordSet == {ReservedWords[k] : k \in 1..Len(ReservedWords)}
\* Words that have a reserved word as a proper prefix or suffix, or inside.
NearReservedWords ==
    {"classes", "int_x", "iff", "newx", "trueValue", "this1", "Strings", "length_",
     "nullable", "xclass", "aint", "whiles", "elseif", "mainly", "returned", "voided",
     "publicity", "statics", "extendsX", "booleans", "falsey", "System", "println",
     "i", "class_", "If", "x"}
ScanWords == ReservedWordSet \cup NearReservedWords
SecondWords == {"class", "classes", "int_x", "iff", "int", "if"}
\* Whitespace, comments (with words inside) and punctuation between the two words.
ScanSeparators == {" ", "\n\t", "/* class x */", " // int y\n", ";", " /*if*/ /**/ "}
ScanCodes ==
    {first \o separator \o second :
        first \in ScanWords, separator \in ScanSeparators, second \in SecondWords}

InitScan ==
    /\ pc = "scanning"
    /\ code \in ScanCodes
    /\ position = 0
    /\ tokens = <<>>
    /\ current_index = 0
    /\ syntax_tree = NoneNode
    /\ symbol_table = EmptyDict
    /\ error = NoError
    /\ InhIdle
    /\ BackIdle

NextScan ==
    \/ Tokenize
    \/ TokenizeReturn

SpecScan == InitScan /\ [][NextScan]_vars

(***************************************************************************)
(* Claim C13                                                               *)
(***************************************************************************)
\* The token of a whole word: RESERVED exactly for the reserved words.
WordToken(word) ==
    <<IF word \in ReservedWordSet THEN "RESERVED" ELSE "IDENTIFIER", word>>
\* The tokens of a sequence that are not punctuation.
WordTokens(toks) == SelectSeq(toks, LAMBDA t : t[1] # "PUNCTUATION")

\* C13: tokenize emits a word as RESERVED if and only if the whole word is a reserved
\* word; a word that only begins with a reserved word (classes, int_x, iff) is one
\* IDENTIFIER token; whitespace and comments never appear among the tokens.
C13_ReservedWordsAreWholeWords ==
    /\ pc # "failed"
    /\ \A k \in 1..Len(tokens) : tokens[k][1] \notin {"WHITESPACE", "COMMENT"}
    /\ \A k \in 1..Len(tokens) :
          tokens[k][1] \in {"RESERVED", "IDENTIFIER"} => tokens[k] = WordToken(tokens[k][2])
    /\ \A first \in ScanWords, separator \in ScanSeparators, second \in SecondWords :
          (pc = "tokenized" /\ code = first \o separator \o second)
              => WordTokens(tokens) = <<WordToken(first), WordToken(second)>>

\* Two words that begin with reserved words have been scanned around a comment that
\* holds a reserved word.
C13_PrefixWordsScanned ==
    /\ pc = "tokenized"
    /\ code = "classes" \o "/* class x */" \o "int_x"
    /\ tokens = <<<<"IDENTIFIER", "classes">>, <<"IDENTIFIER", "int_x">>>>

(***************************************************************************)
(* The assembler run as a program on a given output.asm                    *)
(***************************************************************************)
\* python mips_to_binary.py in a directory that holds one of the files as output.asm.
InitAssembler(files) ==
    /\ pc = "generated"
    /\ code = ""
    /\ position = 0
    /\ tokens = <<>>
    /\ current_index = 0
    /\ syntax_tree = NoneNode
    /\ symbol_table = EmptyDict
    /\ error = NoError
    /\ InhIdle
    /\ generator = NoneNode
    /\ output_asm \in files
    /\ AsmIdle

NextAssembler ==
    \/ pass_one
    \/ pass_one_loop
    \/ pass_two
    \/ pass_two_loop
    \/ pass_two_return

\* The number that binary digits spell, and that number read as two's complement.
BinaryValue(binary) ==
    LET value[i \in 0..Len(binary)] ==
            IF i = 0 THEN 0
            ELSE 2 * value[i - 1] + (IF CharAt(binary, i) = "1" THEN 1 ELSE 0) IN
    value[Len(binary)]
SignedValue(binary) ==
    IF CharAt(binary, 1) = "1" THEN BinaryValue(binary) - 2^Len(binary)
    ELSE BinaryValue(binary)
IsBinary(binary, width) ==
    Len(binary) = width /\ \A i \in 1..width : CharAt(binary, i) \in {"0", "1"}

(***************************************************************************)
(* SpecImm: the assembler on files of one instruction with an immediate    *)
(***************************************************************************)
ImmediateInstructions == {"addi", "addiu", "li"}
\* The immediates: 0, the powers of two up to 2^16 and their neighbours, with both
\* signs, and values well outside the 16-bit range.
ImmediateValues ==
    LET near == {2^k + d : k \in 0..16, d \in {0 - 1, 0, 1}} IN
    near \cup {0 - n : n \in near} \cup {12345, 0 - 12345, 40000, 0 - 40000, 100000, 0 - 100000}
ImmediateLine(instr, v) ==
    IF instr = "li" THEN "li $t0, " \o ToString(v)
    ELSE instr \o " $t0, $t1, " \o ToString(v)
ImmediateFiles == {ImmediateLine(instr, v) : instr \in ImmediateInstructions, v \in ImmediateValues}

InitImm == InitAssembler(ImmediateFiles)
NextImm == NextAssembler
SpecImm == InitImm /\ [][NextImm]_vars

(***************************************************************************)
(* Claim C14                                                               *)
(***************************************************************************)
\* C14: for an integer v from -32768 to 32767, parse_immediate(v, 16) is a field of 16
\* binary digits that read as two's complement give v, and an addi, addiu or li with
\* the immediate v carries that field in the low 16 bits of its word; for v outside
\* the range the encoding fails with a ValueError and no word is written.
C14_ImmediateIsTwosComplement ==
    \A instr \in ImmediateInstructions, v \in ImmediateValues :
        output_asm = ImmediateLine(instr, v) =>
            LET field == parse_immediate(ToString(v), 16)
                word == translate_line(output_asm, EmptyDict, 0) IN
            IF v \in (0 - 32768)..32767
            THEN /\ field.exc = "none"
                 /\ IsBinary(field.val, 16)
                 /\ SignedValue(field.val) = v
                 /\ word.exc = "none"
                 /\ IsBinary(word.val, 32)
                 /\ SubSeq(word.val, 17, 32) = field.val
                 /\ pc = "assembled" =>
                        /\ Len(output_bin) = 4
                        /\ 256 * output_bin[3] + output_bin[4] = BinaryValue(field.val)
                        /\ printed = <<>>
            ELSE /\ field.exc = "ValueError"
                 /\ word.exc = "ValueError"
                 /\ pc # "failed"
                 /\ pc = "assembled" => output_bin = <<>> /\ Len(printed) = 1

\* li with the least immediate has been assembled: the field is 1 followed by zeros.
C14_LeastImmediateAssembled ==
    /\ pc = "assembled"
    /\ output_asm = ImmediateLine("li", 0 - 32768)
    /\ output_bin = <<32, 8, 128, 0>>

(***************************************************************************)
(* SpecAsm: the assembler on files of three text lines, with or without a  *)
(* data section in front                                                   *)
(***************************************************************************)
AsmLabels == {"loop", "end"}
\* Lines that hold an instruction; the last one names a register the assembler lacks.
AsmInstructions ==
    {"addi $t0, $t0, 1  # step", "move $t1, $t0", "beq $t0, $t1, loop",
     "bne $t0, $zero, end", "addi $t4, $t0, 1"}
\* Blank and comment-only lines.
EmptyLines == {"", "  # end: of the loop"}
LabelLines == {label \o ":" : label \in AsmLabels}
TextLines == AsmInstructions \cup EmptyLines \cup LabelLines
\* Nothing, or a data section followed by the directives that open the text section.
Prologues == {"", ".data\nx: .word 5\nmsg: .asciiz \"hi: there\"\n.text\n.globl main\n"}
AsmFiles ==
    {prologue \o first \o "\n" \o second \o "\n" \o third :
        prologue \in Prologues, first \in TextLines, second \in TextLines, third \in TextLines}

InitAsm == InitAssembler(AsmFiles)
NextAsm == NextAssembler
SpecAsm == InitAsm /\ [][NextAsm]_vars

\* Line k of the file without its line end, and the number of instruction lines in
\* front of line k.
AsmLine(k) == Strip(infile[k], {"\n"})
Preceding(k) == Cardinality({j \in 1..(k - 1) : AsmLine(j) \in AsmInstructions})

(***************************************************************************)
(* Claim C15                                                               *)
(***************************************************************************)
\* C15: when pass_two encodes an instruction, its address counter is the address
\* pass_one gave that instruction, and the 16-bit immediate of an encoded beq or bne is
\* (A_target - (A_branch + 4)) / 4 in two's complement, for the addresses A_target of
\* the label and A_branch of the branch that pass_one assigned, whatever lines precede.
C15_BranchOffsetsFollowPassOne ==
    [][(pc = "pass_two" /\ Len(output_bin') = Len(output_bin) + 4) =>
          LET k == line_index + 1
              parts == Split(AsmLine(k))
              A_branch == 4 * Preceding(k)
              n == Len(output_bin) IN
          /\ ADDRESS_COUNTER = A_branch
          /\ parts[1] \in {"beq", "bne"} =>
                 256 * output_bin'[n + 3] + output_bin'[n + 4]
                     = ((DictGet(LABELS, parts[4]) - (A_branch + 4)) \div 4 + 65536) % 65536
      ]_vars

(***************************************************************************)
(* Claim C16                                                               *)
(***************************************************************************)
\* C16: throughout pass_one the address counter is 4 times the number of instruction
\* lines read so far, starting from 0, and every label defined so far has the address
\* 4 times the number of instruction lines in front of its (latest) definition: blank
\* and comment lines, directives, data declarations and label lines do not advance the
\* counter, every other line advances it by 4.
C16_LabelsCountInstructionLines ==
    pc = "pass_one" =>
        /\ ADDRESS_COUNTER = 4 * Preceding(line_index + 1)
        /\ \A k \in 1..Len(LABELS) : LABELS[k][1] \in AsmLabels
        /\ \A label \in AsmLabels :
              LET definitions == {k \in 1..line_index : AsmLine(k) = label \o ":"} IN
              IF definitions = {} THEN ~DictHas(LABELS, label)
              ELSE /\ DictHas(LABELS, label)
                   /\ DictGet(LABELS, label) = 4 * Preceding(SetMax(definitions))

\* pass_one has read a file with a data section, two instructions and then a label:
\* the label is at address 8.
C16_LabelAfterTwoInstructions ==
    /\ pc = "pass_one"
    /\ line_index = Len(infile)
    /\ Len(infile) = 8
    /\ AsmLine(6) = "move $t1, $t0"
    /\ AsmLine(7) = "bne $t0, $zero, end"
    /\ AsmLine(8) = "end:"
    /\ LABELS = << <<"end", 8>> >>
    /\ ADDRESS_COUNTER = 8

(***************************************************************************)
(* Claim C19                                                               *)
(***************************************************************************)
\* C19: once a line has failed to encode in pass_two (an error was printed or an
\* exception ended the pass), output.bin holds no word: none of a line encoded after
\* the failure, none left from the lines encoded before it.
C19_AssemblyStopsAtFirstError ==
    (pc \in {"pass_two", "assembled", "failed"} /\ (printed # <<>> \/ error.exc # "none")) =>
        output_bin = <<>>

(***************************************************************************)
(* SpecPseudo: the assembler on files of a pseudo-instruction followed by  *)
(* the real instruction it stands for                                      *)
(***************************************************************************)
MappedRegisters == DictKeys(REGISTER_MAP)
InRangeImmediates == ImmediateValues \cap ((0 - 32768)..32767)
LoadImmediateFiles ==
    {"li " \o r \o ", " \o ToString(v) \o "\n" \o "addi " \o r \o ", $zero, " \o ToString(v) :
        r \in MappedRegisters, v \in InRangeImmediates}
MoveFiles ==
    {"move " \o d \o ", " \o r \o "\n" \o "add " \o d \o ", " \o r \o ", $zero" :
        d \in MappedRegisters, r \in MappedRegisters}

InitPseudo == InitAssembler(LoadImmediateFiles \cup MoveFiles)
NextPseudo == NextAssembler
SpecPseudo == InitPseudo /\ [][NextPseudo]_vars

(***************************************************************************)
(* Claim C17                                                               *)
(***************************************************************************)
\* C17: for mapped registers and in-range immediates translate_line gives `li r, imm`
\* the word of `addi r, $zero, imm` and `move d, s` the word of `add d, s, $zero`; a
\* pseudo-instruction yields exactly one word of 32 bits and advances the address
\* counter by exactly 4, in translate_line and in pass_two.
C17_PseudoInstructionsAreOneRealInstruction ==
    pc \in {"pass_two", "assembled"} =>
        LET pseudo == translate_line(AsmLine(1), LABELS, 0)
            real == translate_line(AsmLine(2), LABELS, 0) IN
        /\ pseudo.exc = "none"
        /\ IsBinary(pseudo.val, 32)
        /\ pseudo.val = real.val
        /\ pseudo.ADDRESS_COUNTER = 4
        /\ printed = <<>>
        /\ Len(output_bin) = 4 * line_index
        /\ ADDRESS_COUNTER = 4 * line_index
        /\ line_index = 2 => SubSeq(output_bin, 1, 4) = SubSeq(output_bin, 5, 8)

\* A move between $sp and $fp and its add have been assembled to the same word.
C17_MoveAssembledAsAdd ==
    /\ pc = "assembled"
    /\ output_asm = "move $sp, $fp\nadd $sp, $fp, $zero"
    /\ output_bin = <<3, 192, 32, 32, 3, 192, 32, 32>>

(***************************************************************************)
(* SpecWords: the assembler on files of two real instructions              *)
(***************************************************************************)
\* Real instructions of every format, each mapped register in the places of an
\* R-type source, an I-type target and a base address.
WordLines ==
    {"add $t0, " \o r \o ", $t1" : r \in MappedRegisters}
    \cup {"addi " \o r \o ", $t1, 5" : r \in MappedRegisters}
    \cup {"lw $t0, 4(" \o r \o ")" : r \in MappedRegisters}
    \cup {"sub $t0, $t1, $t2", "and $t0, $t1, $t2", "or $t0, $t1, $t2", "slt $t0, $t1, $t2",
          "mul $t0, $t1, $t2", "addiu $t0, $t1, 5", "addi $t0, $t1, -5", "sw $t0, 4($t1)",
          "lw $t0, -4($t1)", "jr $ra", "jr $t0", "syscall"}
WordFiles == {first \o "\n" \o second : first \in WordLines, second \in WordLines}

InitWords == InitAssembler(WordFiles)
NextWords == NextAssembler
SpecWords == InitWords /\ [][NextWords]_vars

(***************************************************************************)
(* Claim C18                                                               *)
(***************************************************************************)
\* C18: two instruction lines that translate_line encodes at the same address to the
\* same 32-bit word have the same mnemonic and the same operands (lines that differ
\* in a register name differ in their words), and so have two lines that pass_two
\* wrote as equal words.
C18_EqualWordsAreEqualInstructions ==
    pc \in {"pass_two", "assembled"} =>
        LET first == translate_line(AsmLine(1), LABELS, 0)
            second == translate_line(AsmLine(2), LABELS, 0) IN
        /\ (first.exc = "none" /\ second.exc = "none" /\ first.val = second.val)
               => AsmLine(1) = AsmLine(2)
        /\ (Len(output_bin) = 8 /\ SubSeq(output_bin, 1, 4) = SubSeq(output_bin, 5, 8))
               => AsmLine(1) = AsmLine(2)

(***************************************************************************)
(* SpecCalls: a program that imports the assembler and assembles one file  *)
(* after another, each with pass_one and pass_two                          *)
(***************************************************************************)
CallLines ==
    {"loop:", "end:", "beq $t0, $t1, loop", "bne $t0, $zero, end", "addi $t0, $t0, 1  # step"}
CallFiles == {first \o "\n" \o second : first \in CallLines, second \in CallLines}

\* pass_one(f) up to its loop for a further file f, after the assembly of the file
\* before has returned: the caller has put f in the place of the input file, and the
\* globals of the module are as the earlier calls left them.
pass_one_next ==
    /\ pc = "assembled"
    /\ \E f \in CallFiles :
          /\ output_asm' = f
          /\ infile' = FileLines(f)
    /\ pc' = "pass_one"
    /\ ADDRESS_COUNTER' = 0
    /\ IN_DATA_SECTION' = FALSE
    /\ line_index' = 0
    /\ UNCHANGED <<code, position, tokens, current_index, syntax_tree, symbol_table, error,
                   inhVars, generator, LABELS, DATA_SECTION, output_bin, printed>>

InitCalls == InitAssembler(CallFiles)
NextCalls ==
    \/ pass_one
    \/ pass_one_loop
    \/ pass_two
    \/ pass_two_loop
    \/ pass_two_return
    \/ pass_one_next
SpecCalls == InitCalls /\ [][NextCalls]_vars

(***************************************************************************)
(* Claim C20                                                               *)
(***************************************************************************)
\* The lines of the file being assembled that define the label.
DefinitionsOf(label) == {k \in 1..Len(infile) : AsmLine(k) = label \o ":"}

\* C20: when pass_one(f) has read the file f, LABELS holds exactly the labels that f
\* defines, each with its address in f, whatever files were assembled before; and
\* pass_two encodes no branch of f to a label that f does not define.
C20_LabelTableIsRebuiltPerFile ==
    /\ (pc = "pass_one" /\ line_index = Len(infile)) =>
           \A label \in AsmLabels :
               IF DefinitionsOf(label) = {} THEN ~DictHas(LABELS, label)
               ELSE /\ DictHas(LABELS, label)
                    /\ DictGet(LABELS, label) = 4 * Preceding(SetMax(DefinitionsOf(label)))
    /\ pc = "pass_two" =>
           \A k \in 1..line_index :
               Split(AsmLine(k))[1] \in {"beq", "bne"}
                   => DefinitionsOf(Split(AsmLine(k))[4]) # {}

(***************************************************************************)
(* SpecGen: parser, analyzer, generator and assembler on programs whose    *)
(* main method holds one of a family of commands                           *)
(***************************************************************************)
\* The scanner's tokens of a text given in fragments.
TokensOf(fragments) ==
    LET scanned[n \in 0..Len(fragments)] ==
            IF n = 0 THEN <<>> ELSE scanned[n - 1] \o Toks(fragments[n]) IN
    scanned[Len(fragments)]

\* The classes beside the main class: one class; a class and its subclass; two classes
\* with the same members apart from the name.
GenOneClass == <<"class C { int f; public int m(int p){ return p; } }">>
GenSubclass ==
    <<"class P { int pf; public int m(int p){ return p; } } ",
      "class C extends P { int fld; public int g(int p){ return p; } }">>
GenTwins ==
    <<"class A { public int m(int p){ return p; } } ",
      "class C { public int m(int p){ return p; } }">>
\* No class at all, and the class Fac with its method ComputeFac.
GenNoClass == <<>>
GenFac == <<"class Fac { public int ComputeFac(int num){ return num; } }">>
GenClasses == {GenOneClass, GenSubclass, GenTwins, GenNoClass, GenFac}

GenExpressions ==
    {"1", "1 + 2", "1 - 2 * 3", "1 < 2", "1 == 2", "1 != 2", "new C().m(1)",
     "new C().m(1 + 2)", "new C().g(1)", "new C()", "new A()", "new P()", "true", "null",
     "this", "new C().f", "1 + (2 + (3 + 4))", "new int[3]", "true && true",
     "new Fac().ComputeFac(3)"}
Println(e) == <<"System.out.println(", e, ");">>
IfElse == <<"if (1 < 2) System.out.println(1); ", "else System.out.println(2);">>
IfOnly == <<"if (1 < 2) System.out.println(1);">>
WhileLoop == <<"while (1 < 2) System.out.println(1);">>
GenCommands ==
    {Println(e) : e \in GenExpressions}
    \cup {IfElse, IfOnly, WhileLoop, IfElse \o WhileLoop, IfElse \o IfElse,
          <<"{ System.out.println(1); }">>, <<>>,
          <<"if (1 < 2) if (2 < 3) System.out.println(1); ",
            "else System.out.println(2); ", "else System.out.println(3);">>}

GenProgram(commands, classes) ==
    TokensOf(<<"class M { public static void main(String[] a){ ">> \o commands \o <<" } } ">>
             \o classes)
GenPrograms == {GenProgram(commands, classes) : commands \in GenCommands, classes \in GenClasses}

InitGen ==
    /\ pc = "tokenized"
    /\ code = ""
    /\ position = 0
    /\ tokens \in GenPrograms
    /\ current_index = 0
    /\ syntax_tree = NoneNode
    /\ symbol_table = EmptyDict
    /\ error = NoError
    /\ InhIdle
    /\ BackIdle

NextGen ==
    \/ Parse
    \/ Analyze
    \/ Generate
    \/ pass_one
    \/ pass_one_loop
    \/ pass_two
    \/ pass_two_loop
    \/ pass_two_return

SpecGen == InitGen /\ [][NextGen]_vars

(***************************************************************************)
(* Claim C21                                                               *)
(***************************************************************************)
\* The lines of a text that define a label, and the lines that refer to one: a beq,
\* bne, j or jal, whose last word is the label.
LabelDefinitions(text) ==
    {i \in 1..Len(text) :
        Content(text[i]) # "" /\ CharAt(Content(text[i]), Len(Content(text[i]))) = ":"}
LabelReferences(text) ==
    {i \in 1..Len(text) :
        Len(Words(text[i])) >= 2 /\ Words(text[i])[1] \in {"beq", "bne", "j", "jal"}}
ReferencedLabel(text, i) == Words(text[i])[Len(Words(text[i]))]

\* C21: in the text that generate() returns every label is defined exactly once (so
\* the labels of the if and while constructs, numbered by label_counter, differ from
\* construct to construct), and every label that a beq, bne, j or jal refers to is
\* defined in the text.
C21_LabelsDefinedExactlyOnce ==
    pc = "generated" =>
        /\ \A i \in LabelDefinitions(generator.text_section) :
              \A j \in LabelDefinitions(generator.text_section) :
                  Content(generator.text_section[i]) = Content(generator.text_section[j])
                      => i = j
        /\ \A i \in LabelReferences(generator.text_section) :
              \E j \in LabelDefinitions(generator.text_section) :
                  Content(generator.text_section[j])
                      = ReferencedLabel(generator.text_section, i) \o ":"

(***************************************************************************)
(* Claim C27                                                               *)
(***************************************************************************)
\* C27: no node that parse_program built from a program it accepts is rejected by the
\* semantic analyzer or by the code generator as an unsupported command or expression
\* type.
C27_ParsedNodesAreHandledDownstream ==
    (pc = "failed" /\ error.msg # <<>>) =>
        error.msg[1] \notin {"Unsupported expression type:", "Unsupported command type:",
                             "Unsupported expression type", "Unsupported command type"}

(***************************************************************************)
(* Claim C28                                                               *)
(***************************************************************************)
\* The only command of the main method is an If node without an else branch.
IfWithoutElse ==
    /\ syntax_tree.type = "Program"
    /\ Len(syntax_tree.main_class.commands) = 1
    /\ syntax_tree.main_class.commands[1].type = "If"
    /\ syntax_tree.main_class.commands[1].if_false.type = "NoneType"

\* C28: an If command that parse_command built from `if (c) S` without else passes
\* check_command and generate_if without an error, and generate_if emits for it the
\* conditional branch, the branch S, the jump and both labels.
C28_IfWithoutElseIsCompiled ==
    IfWithoutElse =>
        /\ pc = "failed" => output_asm # None
        /\ pc = "generated" =>
               \E i \in 1..Len(generator.text_section) :
                   /\ i + 6 <= Len(generator.text_section)
                   /\ Words(generator.text_section[i])[1] = "beq"
                   /\ ReferencedLabel(generator.text_section, i) = "else_label_1"
                   /\ Words(generator.text_section[i + 4]) = <<"j", "end_if_label_1">>
                   /\ Words(generator.text_section[i + 5]) = <<"else_label_1:">>
                   /\ Words(generator.text_section[i + 6]) = <<"end_if_label_1:">>

(***************************************************************************)
(* Claim C30                                                               *)
(***************************************************************************)
\* C30: translate_line encodes every instruction line of the generated text: pass_two
\* prints no `Unknown instruction` and no `Unsupported register` error, and when it
\* returns it has written as many words as the text has instruction lines.
C30_GeneratedLinesAreEncoded ==
    /\ \A k \in 1..Len(printed) :
          (Len(printed[k]) = 3 /\ printed[k][1] = "Error in line")
              => printed[k][3][1] \notin {"Unknown instruction:", "Unsupported register:"}
    /\ pc = "assembled" =>
          With([lines \in {GeneratedLines} |->
              Len(output_bin) = 4 * Cardinality(InstructionLines(lines))])

(***************************************************************************)
(* Method calls translated by generate_expression                          *)
(***************************************************************************)
\* The receivers and the MethodCall nodes handed to generate_expression.
CallReceivers ==
    {[type |-> "This"]} \cup {[type |-> "NewObject", class_name |-> c] : c \in {"A", "C", "P", "Z"}}
CallArguments ==
    {<<>>, <<[type |-> "Number", value |-> 1]>>,
     <<[type |-> "Number", value |-> 1], [type |-> "Number", value |-> 2]>>}
MethodCalls ==
    {[type |-> "MethodCall", target |-> target, method_name |-> method_name,
      arguments |-> [type |-> "ExpressionList", expressions |-> expressions]] :
        target \in CallReceivers, method_name \in {"m", "g", "zz"},
        expressions \in CallArguments}

\* The calls made inside class_name: current_class travels as the name ("str") or as
\* the symbol table entry ("dict"), as generate_method computes it
\* (self.symbol_table.get(class_name)).
EnclosingClass(table) ==
    {[class_name |-> class_name, is |-> is] :
        class_name \in DictKeys(table), is \in {"str", "dict"}}
CurrentClass(table, enclosing) ==
    IF enclosing.is = "str" THEN StrValue(enclosing.class_name)
    ELSE DictValue(DictGet(table, enclosing.class_name))

\* The call generate_expression(node, current_class) on a generator just constructed.
CallResult(node, enclosing) ==
    gen("generate_expression", MiniJavaCodeGenerator(syntax_tree, symbol_table), node,
        [NoContext EXCEPT !.current_class = CurrentClass(symbol_table, enclosing)])

\* This step is the call generate_expression(node, current_class).
CallStep(node, enclosing) ==
    /\ pc = "analyzed"
    /\ generator' = CallResult(node, enclosing).g
    /\ IF CallResult(node, enclosing).exc = "none"
       THEN pc' = "generated" /\ error' = error
       ELSE pc' = "failed" /\ error' = Exception(CallResult(node, enclosing))

\* generator.generate_expression(node, current_class) for a MethodCall node
GenerateExpression ==
    /\ \E node \in MethodCalls, enclosing \in EnclosingClass(symbol_table) :
          CallStep(node, enclosing)
    /\ UNCHANGED <<code, position, tokens, current_index, syntax_tree, symbol_table,
                   inhVars, output_asm, asmVars>>

InitCall ==
    /\ pc = "tokenized"
    /\ code = ""
    /\ position = 0
    /\ tokens \in {GenProgram(commands, classes) :
                        commands \in {<<>>, Println("1")}, classes \in GenClasses}
    /\ current_index = 0
    /\ syntax_tree = NoneNode
    /\ symbol_table = EmptyDict
    /\ error = NoError
    /\ InhIdle
    /\ BackIdle

NextCall ==
    \/ Parse
    \/ Analyze
    \/ GenerateExpression

SpecCall == InitCall /\ [][NextCall]_vars

\* The labels the jal lines of a text name, in order.
JalTargets(text) ==
    LET calls == SelectSeq(text, LAMBDA line : Len(Words(line)) >= 2 /\ Words(line)[1] = "jal") IN
    [i \in 1..Len(calls) |-> Words(calls[i])[2]]

\* The class a call is bound to by its receiver: the class of `new C()`, the enclosing
\* class of `this`.
BoundClass(node, enclosing) ==
    IF node.target.type = "NewObject" THEN node.target.class_name ELSE enclosing.class_name

\* C22: every MethodCall node handled by generate_expression is bound by its receiver:
\* for the receiver `new C()`, and for the receiver `this` inside class K, the text gains
\* the one call `jal C_m`, `jal K_m`, whatever other classes the symbol table holds; when
\* the class or the method is missing from the symbol table the call ends in
\* CodeGenerationError and the text gains no jal.
C22_CallsAreBoundByTheReceiver ==
    [][\A node \in MethodCalls, enclosing \in EnclosingClass(symbol_table) :
          CallStep(node, enclosing) =>
             IF /\ DictHas(symbol_table, BoundClass(node, enclosing))
                /\ DictHas(DictGet(symbol_table, BoundClass(node, enclosing)).methods,
                           node.method_name)
             THEN /\ pc' = "generated"
                  /\ JalTargets(generator'.text_section)
                        = <<BoundClass(node, enclosing) \o "_" \o node.method_name>>
             ELSE /\ pc' = "failed"
                  /\ error'.exc = "CodeGenerationError"
                  /\ JalTargets(generator'.text_section) = <<>>]_vars

(***************************************************************************)
(* The register pool: sequences of allocate_register and free_register     *)
(***************************************************************************)
\* The registers a caller hands to free_register: those of the pool and two outside it.
FreedRegisters == Elements(registers) \cup {"$a0", "$v0"}
PoolStages == {"constructed", "allocated", "freed", "exhausted"}

\* reg = generator.allocate_register(), the CodeGenerationError caught by the caller
AllocateRegister ==
    /\ pc \in PoolStages
    /\ \E r \in {allocate_register(generator)} :
          /\ generator' = r.g
          /\ IF r.exc = "none"
             THEN pc' = "allocated" /\ error' = NoError
             ELSE pc' = "exhausted" /\ error' = Exception(r)
    /\ UNCHANGED <<code, position, tokens, current_index, syntax_tree, symbol_table,
                   inhVars, output_asm, asmVars>>

\* This step is generator.free_register(reg).
FreeStep(reg) ==
    /\ pc \in PoolStages
    /\ generator' = free_register(generator, reg)
    /\ pc' = "freed"
    /\ error' = NoError

FreeRegister ==
    /\ \E reg \in FreedRegisters : FreeStep(reg)
    /\ UNCHANGED <<code, position, tokens, current_index, syntax_tree, symbol_table,
                   inhVars, output_asm, asmVars>>

InitPool ==
    /\ pc = "constructed"
    /\ code = ""
    /\ position = 0
    /\ tokens = <<>>
    /\ current_index = 0
    /\ syntax_tree = NoneNode
    /\ symbol_table = EmptyDict
    /\ error = NoError
    /\ InhIdle
    /\ generator = MiniJavaCodeGenerator(syntax_tree, symbol_table)
    /\ output_asm = None
    /\ AsmIdle

NextPool ==
    \/ AllocateRegister
    \/ FreeRegister

SpecPool == InitPool /\ [][NextPool]_vars

\* C23: across every sequence of allocate_register and free_register calls, an
\* allocation that returns adds to used_registers exactly one register of the pool
\* $t0..$t9 that was not in use, so used_registers stays within the pool and no register
\* is handed out twice without a free in between; an allocation with all ten in use
\* raises CodeGenerationError and leaves the generator as it was; free_register(r)
\* removes r from used_registers and changes nothing else.
C23_PoolHandsOutFreeRegisters ==
    [][/\ generator'.used_registers \subseteq Elements(registers)
       /\ pc' = "allocated" =>
             \E reg \in Elements(registers) :
                /\ reg \notin generator.used_registers
                /\ generator' = [generator EXCEPT !.used_registers = @ \cup {reg}]
       /\ pc' = "exhausted" =>
             /\ generator.used_registers = Elements(registers)
             /\ error'.exc = "CodeGenerationError"
             /\ generator' = generator
       /\ (pc' \in {"allocated", "exhausted"}) =>
             (pc' = "exhausted" <=> generator.used_registers = Elements(registers))
       /\ \A reg \in FreedRegisters :
             FreeStep(reg) =>
                /\ reg \notin generator'.used_registers
                /\ generator' = [generator EXCEPT !.used_registers = @ \ {reg}]]_vars

\* All ten registers are in use and an allocation has raised.
C23_PoolExhausted ==
    /\ pc = "exhausted"
    /\ generator.used_registers = Elements(registers)
    /\ error.exc = "CodeGenerationError"

(***************************************************************************)
(* Claim C24                                                               *)
(***************************************************************************)
\* The Class node of the syntax tree with this name (NoneNode when there is none).
DeclaredClass(tree, class_name) ==
    IF \E i \in 1..Len(tree.classes) : tree.classes[i].name = class_name
    THEN tree.classes[SetMin({i \in 1..Len(tree.classes) : tree.classes[i].name = class_name})]
    ELSE NoneNode

\* The number of fields the source declares in class_name and in its ancestors along
\* the extends chain: counted[i] is <<fields, class>> after i classes of the chain.
DeclaredFieldCount(tree, class_name) ==
    LET counted[i \in 0..Len(tree.classes)] ==
            IF i = 0 THEN <<0, class_name>>
            ELSE IF DeclaredClass(tree, counted[i - 1][2]) = NoneNode
            THEN <<counted[i - 1][1], None>>
            ELSE <<counted[i - 1][1] + Len(DeclaredClass(tree, counted[i - 1][2]).variables),
                   DeclaredClass(tree, counted[i - 1][2]).parent>> IN
    counted[Len(tree.classes)][1]

\* The program prints `new C()` for a class C it declares, and nothing else.
PrintsNewObject ==
    /\ syntax_tree.type = "Program"
    /\ Len(syntax_tree.main_class.commands) = 1
    /\ syntax_tree.main_class.commands[1].type = "Print"
    /\ syntax_tree.main_class.commands[1].expression.type = "NewObject"
    /\ DeclaredClass(syntax_tree, syntax_tree.main_class.commands[1].expression.class_name)
          # NoneNode

\* C24: for `new C()` the generated text requests 4 bytes for every field declared in C
\* and in its ancestors, and no less than 4 bytes, and holds one `sw $zero` for every
\* word requested.
C24_ObjectSizeCountsDeclaredFields ==
    (pc = "generated" /\ PrintsNewObject) =>
        LET fields == DeclaredFieldCount(syntax_tree,
                          syntax_tree.main_class.commands[1].expression.class_name)
            words == IF fields = 0 THEN 1 ELSE fields
            text == generator.text_section IN
        /\ \E i \in 1..Len(text) :
              Words(text[i]) = <<"li", "$a0,", ToString(4 * words)>>
        /\ Cardinality({i \in 1..Len(text) :
                           /\ Len(Words(text[i])) >= 2
                           /\ Words(text[i])[1] = "sw"
                           /\ Words(text[i])[2] = "$zero,"}) = words

(***************************************************************************)
(* Arrays: the code generate_expression emits, and what it does when run   *)
(***************************************************************************)
MaxArraySize == 6
ArrayKinds == {"ArrayInstantiation", "ArrayLength", "ArrayAccess", "ArrayAssignment"}

\* The node of one kind over `new int[n]`, with index i and assigned value 7.
ArrayNode(kind, n, i) ==
    LET array == [type |-> "ArrayInstantiation", size |-> [type |-> "Number", value |-> n]]
        index == [type |-> "Number", value |-> i] IN
    CASE kind = "ArrayInstantiation" -> array
      [] kind = "ArrayLength" -> [type |-> "ArrayLength", array |-> array]
      [] kind = "ArrayAccess" -> [type |-> "ArrayAccess", array |-> array, index |-> index]
      [] kind = "ArrayAssignment" ->
            [type |-> "ArrayAssignment", array |-> array, index |-> index,
             value |-> [type |-> "Number", value |-> 7]]

\* The call generate_expression(node) on a generator just constructed.
ArrayResult(kind, n, i) ==
    gen("generate_expression", MiniJavaCodeGenerator(syntax_tree, symbol_table),
        ArrayNode(kind, n, i), NoContext)

\* This step is that call.
ArrayStep(kind, n, i) ==
    /\ pc = "analyzed"
    /\ generator' = ArrayResult(kind, n, i).g
    /\ IF ArrayResult(kind, n, i).exc = "none"
       THEN pc' = "generated" /\ error' = error
       ELSE pc' = "failed" /\ error' = Exception(ArrayResult(kind, n, i))

\* generator.generate_expression(node) for the array nodes
GenerateArray ==
    /\ \E kind \in ArrayKinds, n \in 0..MaxArraySize, i \in 0..MaxArraySize :
          /\ kind \in {"ArrayInstantiation", "ArrayLength"} => i = 0
          /\ ArrayStep(kind, n, i)
    /\ UNCHANGED <<code, position, tokens, current_index, syntax_tree, symbol_table,
                   inhVars, output_asm, asmVars>>

InitArray ==
    /\ pc = "tokenized"
    /\ code = ""
    /\ position = 0
    /\ tokens = GenProgram(<<>>, GenNoClass)
    /\ current_index = 0
    /\ syntax_tree = NoneNode
    /\ symbol_table = EmptyDict
    /\ error = NoError
    /\ InhIdle
    /\ BackIdle

NextArray ==
    \/ Parse
    \/ Analyze
    \/ GenerateArray

SpecArray == InitArray /\ [][NextArray]_vars

\* The machine the emitted instructions run on: its registers, the words stored in
\* memory, the break of the heap, and the sizes requested from sbrk and the addresses
\* loaded from, in order.
MachineRegisters == Elements(registers) \cup {"$a0", "$v0", "$zero"}
Machine ==
    [regs |-> [r \in MachineRegisters |-> 0], memory |-> EmptyDict, brk |-> 4096,
     requests |-> <<>>, loads |-> <<>>]

Operand(word) == Strip(word, {","})
\* The value of a register or immediate operand.
OperandValue(m, word) ==
    IF CharAt(Operand(word), 1) = "$" THEN m.regs[Operand(word)] ELSE int(Operand(word))
\* The address of a memory operand offset(base).
OperandAddress(m, word) ==
    int(SplitOn(Operand(word), "(")[1]) + m.regs[Strip(SplitOn(Operand(word), "(")[2], {")"})]

\* One instruction of the kinds the array code uses.
Execute(m, line) ==
    LET words == Words(line) IN
    CASE words[1] \in {"li", "move"} ->
            [m EXCEPT !.regs[Operand(words[2])] = OperandValue(m, words[3])]
      [] words[1] = "mul" ->
            [m EXCEPT !.regs[Operand(words[2])] =
                          OperandValue(m, words[3]) * OperandValue(m, words[4])]
      [] words[1] \in {"add", "addiu"} ->
            [m EXCEPT !.regs[Operand(words[2])] =
                          OperandValue(m, words[3]) + OperandValue(m, words[4])]
      [] words[1] = "syscall" ->
            IF m.regs["$v0"] = 9
            THEN [m EXCEPT !.regs["$v0"] = m.brk, !.brk = m.brk + m.regs["$a0"],
                           !.requests = Append(@, m.regs["$a0"])]
            ELSE m
      [] words[1] = "sw" ->
            [m EXCEPT !.memory = DictPut(@, OperandAddress(m, words[3]),
                                         m.regs[Operand(words[2])])]
      [] words[1] = "lw" ->
            [m EXCEPT !.regs[Operand(words[2])] =
                          IF DictHas(m.memory, OperandAddress(m, words[3]))
                          THEN DictGet(m.memory, OperandAddress(m, words[3])) ELSE 0,
                      !.loads = Append(@, OperandAddress(m, words[3]))]

\* The machine after the instructions of a text, run from the first to the last.
Run(text) ==
    LET after[k \in 0..Len(text)] ==
            IF k = 0 THEN Machine
            ELSE With([m \in {after[k - 1]} |-> Execute(m, text[k])]) IN
    after[Len(text)]

\* C25: the instructions emitted for an array of n elements request 4n+4 bytes and
\* store n in the first word of the block, so that the instructions emitted for
\* ArrayLength leave n in the result register; element i is read at base + 4 + 4i.
C25_ArrayHoldsItsLength ==
    [][\A kind \in ArrayKinds, n \in 0..MaxArraySize, i \in 0..MaxArraySize :
          ArrayStep(kind, n, i) =>
             /\ pc' = "generated"
             /\ With([m \in {Run(generator'.text_section)} |->
                   /\ m.requests = <<4 * n + 4>>
                   /\ DictGet(m.memory, Machine.brk) = n
                   /\ kind = "ArrayLength" => m.regs[ArrayResult(kind, n, i).reg] = n
                   /\ kind = "ArrayAccess" => m.loads = <<Machine.brk + 4 + 4 * i>>])]_vars

(***************************************************************************)
(* The register pool across generate_expression and generate_command       *)
(***************************************************************************)
\* generator = MiniJavaCodeGenerator(syntax_tree, symbol_table)
Construct ==
    /\ pc = "analyzed"
    /\ pc' = "constructed"
    /\ generator' = MiniJavaCodeGenerator(syntax_tree, symbol_table)
    /\ UNCHANGED <<code, position, tokens, current_index, syntax_tree, symbol_table, error,
                   inhVars, output_asm, asmVars>>

Literal(n) == [type |-> "Number", value |-> n]
Binary(type, operator, left, right) ==
    [type |-> type, operator |-> operator, left |-> left, right |-> right]
NewC == [type |-> "NewObject", class_name |-> "C"]
CallM(target, expressions) ==
    [type |-> "MethodCall", target |-> target, method_name |-> "m",
     arguments |-> [type |-> "ExpressionList", expressions |-> expressions]]
NewInt(size) == [type |-> "ArrayInstantiation", size |-> size]

\* The optional arguments of a call made for a method of class C with the parameter p in
\* a register and the local variable x on the stack.
MethodContext ==
    [current_class |-> StrValue("C"), param_map |-> DictValue(<<<<"p", "$a1">>>>),
     local_var_offsets |-> DictValue(<<<<"x", "-4">>>>)]
Call(node, context) == [node |-> node, context |-> context]

\* The calls of generate_expression, one or more for every kind of node it handles.
UseExpressions ==
    <<Call(Literal(1), NoContext),
      Call([type |-> "Boolean", value |-> "true"], NoContext),
      Call([type |-> "Null"], NoContext),
      Call([type |-> "This"], MethodContext),
      Call(NewC, NoContext),
      Call([type |-> "Identifier", name |-> "p", var_type |-> "int"], MethodContext),
      Call([type |-> "Identifier", name |-> "x", var_type |-> "int[]"], MethodContext),
      Call([type |-> "Identifier", name |-> "p", var_type |-> "int"], NoContext),
      Call(Binary("ArithmeticOp", "+", Literal(1),
                  Binary("ArithmeticOp", "*", [type |-> "Identifier", name |-> "p"], Literal(3))),
           MethodContext),
      Call(Binary("RelationalOp", "<", Literal(1), Literal(2)), NoContext),
      Call(Binary("LogicalOp", "&&", [type |-> "Boolean", value |-> "true"],
                  Binary("RelationalOp", "==", Literal(1), Literal(2))), NoContext),
      Call(CallM(NewC, <<Literal(1), Binary("ArithmeticOp", "-", Literal(2), Literal(3))>>),
           NoContext),
      Call(CallM([type |-> "This"], <<Literal(1)>>), MethodContext),
      Call([type |-> "FieldAccess", target |-> NewC, field_name |-> "f"], NoContext),
      Call(NewInt(Literal(3)), NoContext),
      Call([type |-> "ArrayAccess", array |-> NewInt(Literal(3)), index |-> Literal(2)],
           NoContext),
      Call([type |-> "ArrayLength", array |-> NewInt(Literal(3))], NoContext),
      Call([type |-> "ArrayAssignment", array |-> NewInt(Literal(3)), index |-> Literal(2),
            value |-> Literal(7)], NoContext)>>

PrintOf(expression) == [type |-> "Print", expression |-> expression]
\* The calls of generate_command, one or more for every kind of command it handles.
UseCommands ==
    <<Call(PrintOf(Literal(1)), NoContext),
      Call(PrintOf(CallM(NewC, <<Literal(1)>>)), NoContext),
      Call(PrintOf([type |-> "Boolean", value |-> "true"]), NoContext),
      Call([type |-> "Assignment", target |-> "x",
            value |-> Binary("ArithmeticOp", "+", Literal(1), Literal(2))], MethodContext),
      Call([type |-> "Assignment", target |-> "p", value |-> Literal(1)], MethodContext),
      Call([type |-> "Assignment", target |-> "x", value |-> Literal(1)], NoContext),
      Call([type |-> "Return", value |-> Binary("ArithmeticOp", "+", Literal(1), Literal(2))],
           MethodContext),
      Call([type |-> "If", condition |-> Binary("RelationalOp", "<", Literal(1), Literal(2)),
            if_true |-> PrintOf(Literal(1)), if_false |-> PrintOf(Literal(2))], NoContext),
      Call([type |-> "If", condition |-> Binary("RelationalOp", "<", Literal(1), Literal(2)),
            if_true |-> [type |-> "Return", value |-> Literal(1)]], MethodContext),
      Call([type |-> "While", condition |-> Binary("RelationalOp", "<", Literal(1), Literal(2)),
            body |-> PrintOf(Literal(1))], NoContext),
      Call([type |-> "While", condition |-> Binary("RelationalOp", "<", Literal(1), Literal(2)),
            body |-> [type |-> "If",
                      condition |-> Binary("RelationalOp", "<", Literal(3), Literal(4)),
                      if_true |-> PrintOf(Literal(1)), if_false |-> PrintOf(Literal(2))]],
           NoContext)>>

ExpressionResult(k) ==
    gen("generate_expression", generator, UseExpressions[k].node, UseExpressions[k].context)
CommandResult(k) ==
    gen("generate_command", generator, UseCommands[k].node, UseCommands[k].context)

\* This step is a call of generate_expression with the result r, a register returned.
ExpressionReturn(r) ==
    /\ pc \in PoolStages
    /\ pc' = "evaluated"
    /\ r.exc = "none"
    /\ r.reg # None
    /\ generator' = r.g
    /\ error' = error

\* This step is a call of generate_command with the result r, the command completed.
CommandReturn(r) ==
    /\ pc \in PoolStages
    /\ pc' = "generated"
    /\ r.exc = "none"
    /\ generator' = r.g
    /\ error' = error

\* reg = generator.generate_expression(node, current_class, param_map, local_var_offsets)
EvaluateExpression ==
    /\ pc \in PoolStages
    /\ \E k \in 1..Len(UseExpressions) :
          \E r \in {ExpressionResult(k)} :
             \/ ExpressionReturn(r)
             \/ /\ r.exc = "none"
                /\ r.reg = None
                /\ pc' = "returned None"
                /\ generator' = r.g
                /\ error' = error
             \/ /\ r.exc # "none"
                /\ pc' = "failed"
                /\ generator' = r.g
                /\ error' = Exception(r)
    /\ UNCHANGED <<code, position, tokens, current_index, syntax_tree, symbol_table,
                   inhVars, output_asm, asmVars>>

\* generator.generate_command(node, current_class, param_map, local_var_offsets)
GenerateCommand ==
    /\ pc \in PoolStages
    /\ \E k \in 1..Len(UseCommands) :
          \E r \in {CommandResult(k)} :
             \/ CommandReturn(r)
             \/ /\ r.exc # "none"
                /\ pc' = "failed"
                /\ generator' = r.g
                /\ error' = Exception(r)
    /\ UNCHANGED <<code, position, tokens, current_index, syntax_tree, symbol_table,
                   inhVars, output_asm, asmVars>>

InitUse ==
    /\ pc = "tokenized"
    /\ code = ""
    /\ position = 0
    /\ tokens = GenProgram(<<>>, GenOneClass)
    /\ current_index = 0
    /\ syntax_tree = NoneNode
    /\ symbol_table = EmptyDict
    /\ error = NoError
    /\ InhIdle
    /\ BackIdle

NextUse ==
    \/ Parse
    \/ Analyze
    \/ Construct
    \/ AllocateRegister
    \/ FreeRegister
    \/ EvaluateExpression
    \/ GenerateCommand

SpecUse == InitUse /\ [][NextUse]_vars

\* C26: every call of generate_expression that returns a register leaves exactly one
\* more register allocated than before, the one it returns, which was free before the
\* call; and when generate_command completes for a Print, Assignment, If, While or
\* Return, used_registers is the set it was before the command.
C26_EvaluateThenFree ==
    [][/\ pc' = "evaluated" =>
             /\ generator.used_registers \subseteq generator'.used_registers
             /\ Cardinality(generator'.used_registers \ generator.used_registers) = 1
             /\ \A k \in 1..Len(UseExpressions) :
                   \A r \in {ExpressionResult(k)} :
                      ExpressionReturn(r) =>
                         /\ r.reg \notin generator.used_registers
                         /\ generator'.used_registers = generator.used_registers \cup {r.reg}
       /\ pc' = "generated" => generator'.used_registers = generator.used_registers]_vars

\* With three registers in use before it, a method call has been evaluated.
C26_CallEvaluatedWithRegistersInUse ==
    /\ pc = "evaluated"
    /\ Cardinality(generator.used_registers) = 4
    /\ \E i \in 1..Len(generator.text_section) :
          Words(generator.text_section[i]) = <<"jal", "C_m">>

(***************************************************************************)
(* generate() called again on the same generator                           *)
(***************************************************************************)
\* text = generator.generate(), a second time on the generator of the first call
GenerateAgain ==
    /\ pc = "generated"
    /\ \E r \in {generate(generator)} :
          /\ generator' = r.g
          /\ IF r.exc = "none"
             THEN pc' = "generated again" /\ error' = error
                  /\ output_asm' = Join(r.g.output, "\n")
             ELSE pc' = "failed" /\ error' = Exception(r) /\ output_asm' = output_asm
    /\ UNCHANGED <<code, position, tokens, current_index, syntax_tree, symbol_table,
                   inhVars, asmVars>>

NextAgain ==
    \/ Parse
    \/ Analyze
    \/ Generate
    \/ GenerateAgain

SpecAgain == InitGen /\ [][NextAgain]_vars

\* C29: generate() is a function of the syntax tree and the symbol table: a second call
\* on the same generator returns the text the first call returned, with one data section
\* and one text section, and leaves the symbol table as it was.
C29_GenerateAgainReturnsTheSameText ==
    [][(pc = "generated" /\ pc' \in {"generated again", "failed"}) =>
          /\ pc' = "generated again"
          /\ output_asm' = output_asm
          /\ Cardinality({i \in 1..Len(generator'.output) :
                             generator'.output[i] = ".data"}) = 1
          /\ Cardinality({i \in 1..Len(generator'.output) :
                             generator'.output[i] = ".text"}) = 1
          /\ generator'.symbol_table = symbol_table]_vars

====
